---- MODULE Spec2Model ----
(***************************************************************************)
(* Model of ddqb (DataDog Query Builder): the filter / filter-group tree,  *)
(* its rendering (Build), the tree navigator (FindGroup / AddToGroup), the *)
(* metric query builder and the ingestion bridge (convertFilters) that     *)
(* turns a parsed ddqp filter list into the tree.                          *)
(*                                                                         *)
(* Go strings are modelled as sequences of lexemes: fmt.Sprintf and        *)
(* strings.Join become sequence concatenation, so "host:web-1" is          *)
(* <<"host", ":", "web-1">>.  Builders are heap objects reached through    *)
(* pointers: heap[i] is the object with address i, 0 is the nil pointer.   *)
(***************************************************************************)
EXTENDS Integers, Sequences, FiniteSets, TLC

VARIABLES
    heap,       \* the filterBuilder / filterGroupBuilder objects allocated so far
    builder,    \* the QueryBuilder under edit (metricQueryBuilder or expressionQueryBuilder)
    found,      \* the pointer the last call returned, if it was FindGroup, or the
                \* element the caller took from the slice GetFilters returned (0 = nil)
    result,     \* the string and error the last call returned, if it was Build
    last,       \* the call that was made last, with its arguments; for Not and
                \* Build, s notes whether the call repeats one already made, for
                \* And and Or whether the receiver is the pointer in found
    status,     \* "running", or "crashed" after a fatal stack overflow
    input,      \* the parsed query / filter list handed to the ingestion bridge
    cv,         \* the locals of a convertFilters call in progress
    calls       \* the number of calls the caller has made on the builders

vars == <<heap, builder, found, result, last, status, input, cv, calls>>

(***************************************************************************)
(* Bounds of the model.                                                    *)
(***************************************************************************)
MaxNodes == 4       \* objects on the heap in the builder specification
MaxChildren == 2    \* children one group receives through And / Or / AddToGroup
MaxFilters == 2     \* entries of the top-level filter list
MaxCalls == 6       \* calls in one editing session of the builder specification
MaxEdits == 3       \* calls made on a builder that ParseQuery returned

Nil == 0

(***************************************************************************)
(* strings.Join(parts, sep) over lexeme sequences.                         *)
(***************************************************************************)
RECURSIVE Join(_, _)
Join(parts, sep) ==
    IF parts = <<>> THEN <<>>
    ELSE IF Len(parts) = 1 THEN parts[1]
    ELSE parts[1] \o sep \o Join(Tail(parts), sep)

NoErr == <<>>
Ok(s) == [str |-> s, err |-> NoErr, overflow |-> FALSE]
Fail(msg) == [str |-> <<>>, err |-> <<msg>>, overflow |-> FALSE]
\* fmt.Errorf("<ctx>: %w", err): the error chain grows at the front
Wrap(ctx, r) == [str |-> <<>>, err |-> <<ctx>> \o r.err, overflow |-> r.overflow]
\* unbounded recursion ends the process with a fatal stack overflow
Overflow == [str |-> <<>>, err |-> <<"stack overflow">>, overflow |-> TRUE]

(***************************************************************************)
(* filter.go: filterBuilder                                                *)
(***************************************************************************)
\* a slip in the constructor: the builder starts with one empty value
NewFilterBuilder_oneValue(key) ==
    [kind |-> "filter", key |-> key, operation |-> "Equal", values |-> <<"">>,
     expressions |-> <<>>, operator |-> "AND", negated |-> FALSE]

NewFilterBuilder(key) ==
    [kind |-> "filter", key |-> key, operation |-> "Equal", values |-> <<>>,
     expressions |-> <<>>, operator |-> "AND", negated |-> FALSE]

FilterSetOp(f, op, vals) == [f EXCEPT !.operation = op, !.values = vals]

quoteValues(values) == [i \in 1..Len(values) |-> <<"\"", values[i], "\"">>]

filterBuilder_Build(b) ==
    IF b.key = "" THEN Fail("filter key is required")
    ELSE CASE b.operation = "Equal" ->
                IF Len(b.values) # 1 THEN Fail("equal filter requires exactly one value")
                ELSE Ok(<<b.key, ":", b.values[1]>>)
           [] b.operation = "NotEqual" ->
                IF Len(b.values) # 1 THEN Fail("not equal filter requires exactly one value")
                ELSE Ok(<<b.key, "!:", b.values[1]>>)
           [] b.operation = "GreaterThan" ->
                IF Len(b.values) # 1 THEN Fail("greater than filter requires exactly one value")
                ELSE Ok(<<b.key, ">", b.values[1]>>)
           [] b.operation = "LessThan" ->
                IF Len(b.values) # 1 THEN Fail("less than filter requires exactly one value")
                ELSE Ok(<<b.key, "<", b.values[1]>>)
           [] b.operation = "Regex" ->
                IF Len(b.values) # 1 THEN Fail("regex filter requires exactly one pattern")
                ELSE Ok(<<b.key, ":~", b.values[1]>>)
           [] b.operation = "In" ->
                IF Len(b.values) = 0 THEN Fail("in filter requires at least one value")
                ELSE Ok(<<b.key, " IN ", "[">> \o Join(quoteValues(b.values), <<", ">>) \o <<"]">>)
           [] b.operation = "NotIn" ->
                IF Len(b.values) = 0 THEN Fail("not in filter requires at least one value")
                ELSE Ok(<<b.key, " NOT IN ", "[">> \o Join(quoteValues(b.values), <<", ">>) \o <<"]">>)
           [] OTHER -> Fail("unknown filter operation")

(***************************************************************************)
(* filterGroupBuilder                                                      *)
(***************************************************************************)
NewFilterGroupBuilder ==
    [kind |-> "group", key |-> "", operation |-> "Equal", values |-> <<>>,
     expressions |-> <<>>, operator |-> "AND", negated |-> FALSE]

\* g.And(expr) / g.Or(expr) on the object at address g; expr is a pointer
And(h, g, expr) ==
    IF Len(h[g].expressions) = 0
    THEN [h EXCEPT ![g].operator = "AND", ![g].expressions = Append(@, expr)]
    ELSE [h EXCEPT ![g].expressions = Append(@, expr)]

\* a slip in Or: the operator follows the last call instead of the first
Or_lastWins(h, g, expr) ==
    [h EXCEPT ![g].operator = "OR", ![g].expressions = Append(@, expr)]

Or(h, g, expr) ==
    IF Len(h[g].expressions) = 0
    THEN [h EXCEPT ![g].operator = "OR", ![g].expressions = Append(@, expr)]
    ELSE [h EXCEPT ![g].expressions = Append(@, expr)]

\* a slip in Not: the flag is toggled
Not_toggles(h, g) == [h EXCEPT ![g].negated = ~@]

Not(h, g) == [h EXCEPT ![g].negated = TRUE]

\* expr.Build() through the FilterExpression interface; fuel is the stack
\* depth left, exhausted only when a group is reachable from itself
RECURSIVE BuildExpr(_, _, _), BuildParts(_, _, _, _)
PrependPart(s, rest) == [parts |-> <<s>> \o rest.parts, r |-> rest.r]

BuildPartsStep(h, exprs, i, fuel, r) ==
    IF r.overflow THEN [parts |-> <<>>, r |-> r]
    ELSE IF r.err # NoErr
    THEN [parts |-> <<>>, r |-> Wrap("error building filter expression", r)]
    ELSE PrependPart(r.str, BuildParts(h, exprs, i + 1, fuel))

BuildParts(h, exprs, i, fuel) ==
    IF i > Len(exprs) THEN [parts |-> <<>>, r |-> Ok(<<>>)]
    ELSE BuildPartsStep(h, exprs, i, fuel, BuildExpr(h, exprs[i], fuel))

OpStr(b) == IF b.operator = "AND" THEN <<" AND ">> ELSE <<" OR ">>

\* a slip in the parenthesization test: every non-empty group is wrapped
Parenthesize_always(b, groupStr) ==
    IF Len(b.expressions) >= 1 THEN <<"(">> \o groupStr \o <<")">> ELSE groupStr

Parenthesize(b, groupStr) ==
    IF Len(b.expressions) > 1 THEN <<"(">> \o groupStr \o <<")">> ELSE groupStr

\* a slip in the negation step: the prefix is left out
Negate_dropped(b, groupStr) == groupStr

Negate(b, groupStr) == IF b.negated THEN <<"NOT ">> \o groupStr ELSE groupStr

GroupString(b, bp) ==
    IF bp.r.err # NoErr THEN bp.r
    ELSE Ok(Negate(b, Parenthesize(b, Join(bp.parts, OpStr(b)))))

filterGroupBuilder_Build(h, g, fuel) ==
    IF Len(h[g].expressions) = 0
    THEN Fail("filter group must contain at least one expression")
    ELSE GroupString(h[g], BuildParts(h, h[g].expressions, 1, fuel))

BuildExpr(h, id, fuel) ==
    IF fuel = 0 THEN Overflow
    ELSE IF h[id].kind = "filter" THEN filterBuilder_Build(h[id])
    ELSE filterGroupBuilder_Build(h, id, fuel - 1)

\* the stack depth that only a cyclic structure exhausts
Fuel(h) == Len(h) + 2


(***************************************************************************)
(* function.go: functionBuilder.  Functions are held by value here: no     *)
(* operation of the model reaches a functionBuilder after ApplyFunction.   *)
(***************************************************************************)
NewFunctionBuilder(name) == [name |-> name, args |-> <<>>]

WithArg(fn, arg) == [fn EXCEPT !.args = Append(@, arg)]

WithArgs(fn, args) == [fn EXCEPT !.args = @ \o args]

functionBuilder_Build(b) ==
    IF b.name = "" THEN Fail("function name is required")
    ELSE IF Len(b.args) > 0
    THEN Ok(<<".", b.name, "(">> \o Join([i \in 1..Len(b.args) |-> <<b.args[i]>>], <<", ">>) \o <<")">>)
    ELSE Ok(<<".", b.name, "(", ")">>)

(***************************************************************************)
(* metric.go: metricQueryBuilder                                           *)
(***************************************************************************)
NewMetricQueryBuilder ==
    [kind |-> "metric", metric |-> "", aggregator |-> "", timeWindow |-> "",
     filters |-> <<>>, groupBy |-> <<>>, functions |-> <<>>,
     original |-> Nil, addedFilters |-> <<>>]

IsGroup(h, id) == id \in 1..Len(h) /\ h[id].kind = "group"

\* the FindGroup predicates callers pass; each inspects the candidate's Build()
PredNames == {"any", "none", "negated", "flat"}

HasNestedParen(s) == \E i \in 2..Len(s) : s[i] = "("

\* "T" / "F", or "overflow" when the predicate's own Build() never returns
PredicateOn(p, r) ==
    IF r.overflow THEN "overflow"
    ELSE IF r.err # NoErr THEN "F"
    ELSE IF p = "negated" THEN (IF r.str[1] = "NOT " THEN "T" ELSE "F")
    ELSE (IF r.str[1] = "(" /\ ~HasNestedParen(r.str) THEN "T" ELSE "F")

Predicate(h, g, p) ==
    IF p = "any" THEN "T"
    ELSE IF p = "none" THEN "F"
    ELSE PredicateOn(p, BuildExpr(h, g, Fuel(h)))

CrashPtr == -1

RECURSIVE findGroupRecursive(_, _, _, _), findGroupNested(_, _, _, _, _)
OrElse(f, g) == IF f # Nil THEN f ELSE g

MatchOr(m, expr, rest) ==
    IF m = "overflow" THEN CrashPtr ELSE IF m = "T" THEN expr ELSE rest

findGroupNested(h, exprs, i, p, fuel) ==
    IF i > Len(exprs) THEN Nil
    ELSE OrElse(findGroupRecursive(h, exprs[i], p, fuel),
                findGroupNested(h, exprs, i + 1, p, fuel))

\* a slip in the traversal: the children are searched before the group itself
findGroupRecursive_childrenFirst(h, expr, p, fuel) ==
    IF fuel = 0 THEN CrashPtr
    ELSE IF h[expr].kind # "group" THEN Nil
    ELSE OrElse(findGroupNested(h, h[expr].expressions, 1, p, fuel - 1),
                MatchOr(Predicate(h, expr, p), expr, Nil))

findGroupRecursive(h, expr, p, fuel) ==
    IF fuel = 0 THEN CrashPtr
    ELSE IF h[expr].kind # "group" THEN Nil
    ELSE MatchOr(Predicate(h, expr, p), expr,
                 findGroupNested(h, h[expr].expressions, 1, p, fuel - 1))

FindGroup(h, b, p) == findGroupNested(h, b.filters, 1, p, Fuel(h))

\* a slip in AddToGroup: the And / Or branches are swapped
AddToGroup_swapped(h, b, group, filter) ==
    IF group = Nil
    THEN <<h, [b EXCEPT !.filters = Append(@, filter)]>>
    ELSE IF h[group].operator = "AND"
    THEN <<Or(h, group, filter), b>>
    ELSE <<And(h, group, filter), b>>

\* AddToGroup on the metric query builder: the new <<heap, builder>>
AddToGroup(h, b, group, filter) ==
    IF group = Nil
    THEN <<h, [b EXCEPT !.filters = Append(@, filter)]>>
    ELSE IF h[group].operator = "AND"
    THEN <<And(h, group, filter), b>>
    ELSE <<Or(h, group, filter), b>>

RECURSIVE AndAll(_, _, _, _)
AndAll(h, g, exprs, i) ==
    IF i > Len(exprs) THEN h ELSE AndAll(And(h, g, exprs[i]), g, exprs, i + 1)

\* a slip in the scan: only the first filter is inspected
hasExplicitOperators_firstOnly(h, b) == h[b.filters[1]].kind = "group"

hasExplicitOperators(h, b) == \E i \in 1..Len(b.filters) : h[b.filters[i]].kind = "group"

RECURSIVE BuildFilterStrs(_, _, _), BuildFunctions(_, _)
BuildFilterStrsStep(h, exprs, i, r) ==
    IF r.overflow THEN [parts |-> <<>>, r |-> r]
    ELSE IF r.err # NoErr
    THEN [parts |-> <<>>, r |-> Wrap("error building filter", r)]
    ELSE PrependPart(r.str, BuildFilterStrs(h, exprs, i + 1))

BuildFilterStrs(h, exprs, i) ==
    IF i > Len(exprs) THEN [parts |-> <<>>, r |-> Ok(<<>>)]
    ELSE BuildFilterStrsStep(h, exprs, i, BuildExpr(h, exprs[i], Fuel(h)))

AppendFn(s, rest) == IF rest.err # NoErr THEN rest ELSE Ok(s \o rest.str)

BuildFunctionsStep(fns, i, r) ==
    IF r.err # NoErr THEN Wrap("error building function", r)
    ELSE AppendFn(r.str, BuildFunctions(fns, i + 1))

BuildFunctions(fns, i) ==
    IF i > Len(fns) THEN Ok(<<>>)
    ELSE BuildFunctionsStep(fns, i, functionBuilder_Build(fns[i]))

AggregatorPart(b) ==
    IF b.aggregator # ""
    THEN IF b.timeWindow # ""
         THEN <<b.aggregator, "(", b.timeWindow, ")", ":">>
         ELSE <<b.aggregator, ":">>
    ELSE <<>>

\* the synthesized top-level group: the heap with it, the group last
SynthesizedGroup(h, b) == AndAll(Append(h, NewFilterGroupBuilder), Len(h) + 1, b.filters, 1)

\* a slip in Build: a group that fails to build is rendered as nothing
ExplicitBlock_swallows(r) ==
    IF r.overflow THEN r
    ELSE IF r.err # NoErr THEN Ok(<<"{", "}">>)
    ELSE Ok(<<"{">> \o r.str \o <<"}">>)

ExplicitBlock(r) ==
    IF r.overflow THEN r
    ELSE IF r.err # NoErr THEN Wrap("error building filter group", r)
    ELSE Ok(<<"{">> \o r.str \o <<"}">>)

\* a slip in Build: the plain filters are joined like the children of a group
CommaBlock_and(fs) ==
    IF fs.r.err # NoErr THEN fs.r
    ELSE Ok(<<"{">> \o Join(fs.parts, <<" AND ">>) \o <<"}">>)

CommaBlock(fs) ==
    IF fs.r.err # NoErr THEN fs.r
    ELSE Ok(<<"{">> \o Join(fs.parts, <<", ">>) \o <<"}">>)

\* the "{...}" part of the query
FilterPart(h, b) ==
    IF Len(b.filters) > 0
    THEN IF hasExplicitOperators(h, b)
         THEN ExplicitBlock(filterGroupBuilder_Build(SynthesizedGroup(h, b), Len(h) + 1, Fuel(h) + 1))
         ELSE CommaBlock(BuildFilterStrs(h, b.filters, 1))
    ELSE Ok(<<"{", "*", "}">>)

GroupByPart(b) ==
    IF Len(b.groupBy) > 0
    THEN <<" by ", "{">> \o Join([i \in 1..Len(b.groupBy) |-> <<b.groupBy[i]>>], <<", ">>) \o <<"}">>
    ELSE <<>>

JoinParts(b, fp, fn) ==
    IF fp.err # NoErr THEN fp
    ELSE IF fn.err # NoErr THEN fn
    ELSE Ok(AggregatorPart(b) \o <<b.metric>> \o fp.str \o GroupByPart(b) \o fn.str)

metricQueryBuilder_Build(h, b) ==
    IF b.metric = "" THEN Fail("metric name is required")
    ELSE JoinParts(b, FilterPart(h, b), BuildFunctions(b.functions, 1))

\* a slip in Build: the wrapping group is the first filter of the list
BuildEffect_wrapsInFirst(h, b) ==
    IF b.metric # "" /\ Len(b.filters) > 0 /\ hasExplicitOperators(h, b) /\ IsGroup(h, b.filters[1])
    THEN AndAll(h, b.filters[1], Tail(b.filters), 1)
    ELSE h

\* the objects the caller holds as Build leaves them: the wrapping group is
\* a local of Build, and group.AND(filter) writes to that group only
BuildEffect(h, b) ==
    IF b.metric # "" /\ Len(b.filters) > 0 /\ hasExplicitOperators(h, b)
    THEN SubSeq(SynthesizedGroup(h, b), 1, Len(h))
    ELSE h

ApplyFunction(b, fn) == [b EXCEPT !.functions = Append(@, fn)]

(***************************************************************************)
(* The builder specification: a caller allocates filters and groups, edits *)
(* groups, adds them to a metric query builder, searches and builds.       *)
(***************************************************************************)
NoInput == [shape |-> "none"]
NoCv == [pc |-> "idle"]
NoResult == [str |-> <<>>, err |-> NoErr, overflow |-> FALSE]
Call(op, g, e, s) == [op |-> op, g |-> g, e |-> e, s |-> s]

\* the filters the caller has at hand: ddqb.Filter(key).<Operation>(values...)
CallerFilters ==
    << FilterSetOp(NewFilterBuilder("host"), "Equal", <<"web-1">>),
       FilterSetOp(NewFilterBuilder("env"), "NotEqual", <<"prod">>) >>

MetricNames == {"system.cpu.idle"}

Groups(h) == {i \in 1..Len(h) : h[i].kind = "group"}

Init ==
    /\ heap = CallerFilters
    /\ builder = NewMetricQueryBuilder
    /\ found = Nil
    /\ result = NoResult
    /\ last = Call("NewMetricQueryBuilder", Nil, Nil, "")
    /\ status = "running"
    /\ input = NoInput
    /\ cv = NoCv
    /\ calls = 0

DoNewGroup ==
    /\ status = "running"
    /\ cv.pc = "idle"
    /\ calls < MaxCalls
    /\ calls' = calls + 1
    /\ Len(heap) < MaxNodes
    /\ heap' = Append(heap, NewFilterGroupBuilder)
    /\ last' = Call("NewFilterGroupBuilder", Len(heap) + 1, Nil, "")
    /\ found' = Nil /\ result' = NoResult
    /\ UNCHANGED <<builder, status, input, cv>>

DoAnd ==
    /\ status = "running"
    /\ cv.pc = "idle"
    /\ calls < MaxCalls
    /\ calls' = calls + 1
    /\ \E g \in Groups(heap), e \in 1..Len(heap) :
          /\ Len(heap[g].expressions) < MaxChildren
          /\ heap' = And(heap, g, e)
          /\ last' = Call("And", g, e, IF g = found THEN "found" ELSE "")
    /\ found' = Nil /\ result' = NoResult
    /\ UNCHANGED <<builder, status, input, cv>>

DoOr ==
    /\ status = "running"
    /\ cv.pc = "idle"
    /\ calls < MaxCalls
    /\ calls' = calls + 1
    /\ \E g \in Groups(heap), e \in 1..Len(heap) :
          /\ Len(heap[g].expressions) < MaxChildren
          /\ heap' = Or(heap, g, e)
          /\ last' = Call("Or", g, e, IF g = found THEN "found" ELSE "")
    /\ found' = Nil /\ result' = NoResult
    /\ UNCHANGED <<builder, status, input, cv>>

DoNot ==
    /\ status = "running"
    /\ cv.pc = "idle"
    /\ calls < MaxCalls
    /\ calls' = calls + 1
    /\ \E g \in Groups(heap) :
          /\ heap' = Not(heap, g)
          /\ last' = Call("Not", g, Nil, IF heap[g].negated THEN "again" ELSE "first")
    /\ found' = Nil /\ result' = NoResult
    /\ UNCHANGED <<builder, status, input, cv>>

DoMetric ==
    /\ status = "running"
    /\ cv.pc = "idle"
    /\ calls < MaxCalls
    /\ calls' = calls + 1
    /\ builder.kind = "metric"
    /\ \E name \in MetricNames :
          /\ builder' = [builder EXCEPT !.metric = name]
          /\ last' = Call("Metric", Nil, Nil, name)
    /\ found' = Nil /\ result' = NoResult
    /\ UNCHANGED <<heap, status, input, cv>>

DoFilter ==
    /\ status = "running"
    /\ cv.pc = "idle"
    /\ calls < MaxCalls
    /\ calls' = calls + 1
    /\ builder.kind = "metric"
    /\ Len(builder.filters) < MaxFilters
    /\ \E e \in 1..Len(heap) :
          /\ builder' = [builder EXCEPT !.filters = Append(@, e)]
          /\ last' = Call("Filter", Nil, e, "")
    /\ found' = Nil /\ result' = NoResult
    /\ UNCHANGED <<heap, status, input, cv>>

DoFindGroup ==
    /\ status = "running"
    /\ cv.pc = "idle"
    /\ calls < MaxCalls
    /\ calls' = calls + 1
    /\ builder.kind = "metric"
    /\ \E p \in PredNames :
          /\ found' = FindGroup(heap, builder, p)
          /\ status' = IF found' = CrashPtr THEN "crashed" ELSE "running"
          /\ last' = Call("FindGroup", Nil, Nil, p)
    /\ result' = NoResult
    /\ UNCHANGED <<heap, builder, input, cv>>

DoAddToGroup ==
    /\ status = "running"
    /\ cv.pc = "idle"
    /\ calls < MaxCalls
    /\ calls' = calls + 1
    /\ builder.kind = "metric"
    /\ \E g \in Groups(heap) \cup {Nil}, e \in 1..Len(heap) :
          /\ IF g = Nil THEN Len(builder.filters) < MaxFilters
                        ELSE Len(heap[g].expressions) < MaxChildren
          /\ heap' = AddToGroup(heap, builder, g, e)[1]
          /\ builder' = AddToGroup(heap, builder, g, e)[2]
          /\ last' = Call("AddToGroup", g, e, "")
    /\ found' = Nil /\ result' = NoResult
    /\ UNCHANGED <<status, input, cv>>

DoGroupBuild ==
    /\ status = "running"
    /\ cv.pc = "idle"
    /\ calls < MaxCalls
    /\ calls' = calls + 1
    /\ \E g \in Groups(heap) :
          /\ result' = BuildExpr(heap, g, Fuel(heap))
          /\ status' = IF result'.overflow THEN "crashed" ELSE "running"
          /\ last' = Call("GroupBuild", g, Nil, "")
    /\ found' = Nil
    /\ UNCHANGED <<heap, builder, input, cv>>

DoBuild ==
    /\ status = "running"
    /\ cv.pc = "idle"
    /\ calls < MaxCalls
    /\ calls' = calls + 1
    /\ builder.kind = "metric"
    /\ result' = metricQueryBuilder_Build(heap, builder)
    /\ heap' = BuildEffect(heap, builder)
    /\ status' = IF result'.overflow THEN "crashed" ELSE "running"
    /\ last' = Call("Build", Nil, Nil, IF last.op = "Build" THEN "again" ELSE "")
    /\ found' = Nil
    /\ UNCHANGED <<builder, input, cv>>

Next ==
    \/ DoNewGroup
    \/ DoAnd
    \/ DoOr
    \/ DoNot
    \/ DoMetric
    \/ DoFilter
    \/ DoFindGroup
    \/ DoAddToGroup
    \/ DoGroupBuild
    \/ DoBuild

Spec == Init /\ [][Next]_vars

(***************************************************************************)
(* Reference notions the properties are stated with.                       *)
(***************************************************************************)
\* s_1 sep s_2 sep ... s_n, built from the right
RECURSIVE Interleave(_, _, _)
Interleave(strs, sep, n) ==
    IF n = 0 THEN <<>>
    ELSE IF n = 1 THEN strs[1]
    ELSE Interleave(strs, sep, n - 1) \o sep \o strs[n]

RECURSIVE Count(_, _)
Count(tok, s) ==
    IF s = <<>> THEN 0 ELSE (IF s[1] = tok THEN 1 ELSE 0) + Count(tok, Tail(s))

Rendered(h, ids) == [i \in 1..Len(ids) |-> BuildExpr(h, ids[i], Fuel(h)).str]

AllBuild(h, ids) == \A i \in 1..Len(ids) : BuildExpr(h, ids[i], Fuel(h)).err = NoErr

TopLevelHasGroup == \E i \in 1..Len(builder.filters) : IsGroup(heap, builder.filters[i])

\* the groups of a filter list in depth-first pre-order: a group, then the
\* groups below its first child, then those below its second child, ...
RECURSIVE PreOrder(_, _, _)
PreOrder(h, ids, fuel) ==
    IF ids = <<>> \/ fuel = 0 THEN <<>>
    ELSE LET id == Head(ids)
             below == IF h[id].kind = "group"
                      THEN <<id>> \o PreOrder(h, h[id].expressions, fuel - 1)
                      ELSE <<>>
         IN  below \o PreOrder(h, Tail(ids), fuel)

RECURSIVE ReachableFrom(_, _, _)
ReachableFrom(h, S, n) ==
    IF n = 0 THEN S
    ELSE ReachableFrom(h, S \cup UNION {{h[i].expressions[k] : k \in 1..Len(h[i].expressions)} : i \in S}, n - 1)

ReachableNodes == ReachableFrom(heap, {builder.filters[i] : i \in 1..Len(builder.filters)}, Len(heap))

Matches(g, p) == Predicate(heap, g, p) = "T"

FirstOf(order, hits) ==
    IF hits = {} THEN Nil ELSE order[CHOOSE i \in hits : \A j \in hits : i <= j]

HitsIn(order, p) == {i \in 1..Len(order) : Matches(order[i], p)}

FirstIn(order, p) == FirstOf(order, HitsIn(order, p))

FirstMatch(p) == FirstIn(PreOrder(heap, builder.filters, Fuel(heap)), p)

\* the children's renderings joined by sep, in one pair of parentheses when
\* there is more than one
Block(strs, sep) ==
    IF Len(strs) > 1 THEN <<"(">> \o Interleave(strs, sep, Len(strs)) \o <<")">>
    ELSE Interleave(strs, sep, Len(strs))

ExplicitAndQuery(b, strs, fn) ==
    AggregatorPart(b) \o <<b.metric>> \o <<"{">> \o Block(strs, <<" AND ">>) \o <<"}">>
        \o GroupByPart(b) \o fn.str

GroupRenders(b, strs, core) ==
    /\ Len(strs) >= 1
    /\ core = Block(strs, OpStr(b))
    /\ Count("(", core) = (IF Len(strs) > 1 THEN 1 ELSE 0) + Count("(", Join(strs, <<>>))

(***************************************************************************)
(* C1: when the top-level filter list holds at least one FilterGroup, a    *)
(* successful Build renders the filter block as every top-level filter, in *)
(* list order, joined by " AND " (parenthesized as one synthesized AND     *)
(* group), and no ", " joins top-level filters.                            *)
(***************************************************************************)
C1_ExplicitAndBlock ==
    (last.op = "Build" /\ result.err = NoErr /\ TopLevelHasGroup) =>
        /\ result.str = ExplicitAndQuery(builder, Rendered(heap, builder.filters),
                                         BuildFunctions(builder.functions, 1))
        /\ Count(", ", result.str) =
              Count(", ", Join(Rendered(heap, builder.filters), <<>>))
                + Count(", ", GroupByPart(builder))
                + Count(", ", BuildFunctions(builder.functions, 1).str)

C1_Witness ==
    /\ last.op = "Build" /\ result.err = NoErr
    /\ Len(builder.filters) = 2
    /\ heap[builder.filters[1]].kind = "filter"
    /\ heap[builder.filters[2]].kind = "group"
    /\ Len(heap[builder.filters[2]].expressions) >= 1

(***************************************************************************)
(* C6: an And / Or call on a group appends its argument as the last child; *)
(* it sets the operator to its own kind when the group was empty and       *)
(* leaves the operator alone otherwise, so the operator is that of the     *)
(* first call and a later call of the other kind does not change it.       *)
(***************************************************************************)
C6_OperatorFixedByFirstCall ==
    [][ (last'.op \in {"And", "Or"}) =>
          LET g == last'.g
              kind == IF last'.op = "And" THEN "AND" ELSE "OR"
          IN  /\ heap'[g].expressions = Append(heap[g].expressions, last'.e)
              /\ heap'[g].operator = IF heap[g].expressions = <<>> THEN kind
                                     ELSE heap[g].operator
              /\ heap'[g].negated = heap[g].negated
              /\ \A i \in 1..Len(heap) : i # g => heap'[i] = heap[i] ]_vars

C6_Witness ==
    /\ last.op = "Or"
    /\ heap[last.g].operator = "AND"
    /\ Len(heap[last.g].expressions) >= 2

(***************************************************************************)
(* C7: FindGroup(p) returns the first group, in depth-first pre-order over *)
(* the filter list (a group before its children, children in order), for   *)
(* which p holds, and nil exactly when no group reachable from the filter  *)
(* list satisfies p.                                                       *)
(***************************************************************************)
C7_FindGroupPreOrder ==
    (last.op = "FindGroup" /\ status = "running") =>
        /\ found = FirstMatch(last.s)
        /\ (found = Nil) <=>
              (\A g \in ReachableNodes : heap[g].kind = "group" => ~Matches(g, last.s))

\* two groups satisfy p and the one returned was allocated later but comes
\* first in pre-order
C7_Witness ==
    /\ last.op = "FindGroup" /\ status = "running"
    /\ found # Nil
    /\ \E g \in Groups(heap) : g < found /\ g \in ReachableNodes /\ Matches(g, last.s)

(***************************************************************************)
(* C8: AddToGroup(g, e) on the metric query builder with a non-nil group g *)
(* appends e as the last child of g and changes nothing else: not g's      *)
(* operator or negation flag, not the top-level filter list, not any other *)
(* node.                                                                   *)
(***************************************************************************)
C8_AddToGroupFrame ==
    [][ (last'.op = "AddToGroup" /\ last'.g # Nil) =>
          /\ heap' = [heap EXCEPT ![last'.g].expressions = Append(@, last'.e)]
          /\ builder' = builder ]_vars

C8_Witness ==
    /\ last.op = "AddToGroup" /\ last.g # Nil
    /\ heap[last.g].operator = "OR"
    /\ Len(heap[last.g].expressions) >= 2
    /\ heap[last.g].expressions[Len(heap[last.g].expressions)] = last.e
    /\ last.g \in ReachableNodes

(***************************************************************************)
(* C10: a group's Build joins the renderings of its children, in child     *)
(* order, with " AND " / " OR " per its operator and wraps the result in   *)
(* one pair of parentheses exactly when there is more than one child (a    *)
(* negated group carries "NOT " in front of that).                         *)
(***************************************************************************)
C10_GroupRendering ==
    (last.op = "GroupBuild" /\ result.err = NoErr) =>
        /\ heap[last.g].negated => Head(result.str) = "NOT "
        /\ GroupRenders(heap[last.g], Rendered(heap, heap[last.g].expressions),
                        IF heap[last.g].negated THEN Tail(result.str) ELSE result.str)

C10_Witness ==
    /\ last.op = "GroupBuild" /\ result.err = NoErr
    /\ Len(heap[last.g].expressions) >= 2
    /\ \E i \in 1..Len(heap[last.g].expressions) :
          LET c == heap[last.g].expressions[i]
          IN  heap[c].kind = "group" /\ Len(heap[c].expressions) = 1

(***************************************************************************)
(* ddqp: the parse of a query string, as ParseQuery receives it.  A Param  *)
(* is an asterisk, a simple filter, a grouped filter or a separator; a     *)
(* Value keeps the text it was read from.                                  *)
(***************************************************************************)
NoValue == [kind |-> "none", text |-> ""]
Value(kind, text) == [kind |-> kind, text |-> text]
CommaValue == [kind |-> "Separator", text |-> ","]

NoFilterValue == [present |-> FALSE, simple |-> NoValue, list |-> <<>>]
SimpleValue(v) == [present |-> TRUE, simple |-> v, list |-> <<>>]
ListValue(vs) == [present |-> TRUE, simple |-> NoValue, list |-> vs]

SimpleFilter(key, negative, sep, fv) ==
    [FilterKey |-> key, Negative |-> negative, FilterSeparator |-> sep, FilterValue |-> fv]

NoSimpleFilter == SimpleFilter("", FALSE, "nil", NoFilterValue)

AsteriskParam == [kind |-> "asterisk", sf |-> NoSimpleFilter, gf |-> <<>>, sep |-> ""]
SimpleParam(sf) == [kind |-> "simple", sf |-> sf, gf |-> <<>>, sep |-> ""]
GroupedParam(ps) == [kind |-> "grouped", sf |-> NoSimpleFilter, gf |-> ps, sep |-> ""]
SeparatorParam(sep) == [kind |-> "separator", sf |-> NoSimpleFilter, gf |-> <<>>, sep |-> sep]

\* strings.Trim(s, "\"'") on the string literals of the model
TrimQuotes(s) ==
    CASE s = "\"web-1\"" -> "web-1"
      [] s = "'prod'" -> "prod"
      [] OTHER -> s

\* fmt.Sprintf("%g", n) for the number read from the text
FormatG(text) ==
    CASE text = "8080" -> "8080"
      [] text = "1000000" -> "1e+06"
      [] text = "1.50" -> "1.5"
      [] OTHER -> text

extractValueString(v) ==
    CASE v.kind = "none" -> ""
      [] v.kind = "Separator" -> ""
      [] v.kind = "Str" -> TrimQuotes(v.text)
      [] v.kind = "Identifier" -> v.text
      [] v.kind = "Number" -> FormatG(v.text)
      [] v.kind = "Boolean" -> v.text
      [] v.kind = "Wildcard" -> v.text
      [] OTHER -> ""

\* a value and an error message ("" when there is none)
RECURSIVE FirstValue(_, _)
FirstValue(list, i) ==
    IF i > Len(list) THEN ""
    ELSE IF extractValueString(list[i]) # "" THEN extractValueString(list[i])
    ELSE FirstValue(list, i + 1)

extractFilterValue(fv) ==
    IF ~fv.present THEN [value |-> "", err |-> "filter value is nil"]
    ELSE IF fv.simple.kind # "none"
    THEN [value |-> extractValueString(fv.simple), err |-> ""]
    ELSE IF Len(fv.list) > 0
    THEN IF FirstValue(fv.list, 1) # ""
         THEN [value |-> FirstValue(fv.list, 1), err |-> ""]
         ELSE [value |-> "", err |-> "filter value list has no valid values"]
    ELSE [value |-> "", err |-> "filter value has no content"]

RECURSIVE ListValues(_, _)
ListValues(list, i) ==
    IF i > Len(list) THEN <<>>
    ELSE IF list[i].kind = "Separator" \/ extractValueString(list[i]) = ""
    THEN ListValues(list, i + 1)
    ELSE <<extractValueString(list[i])>> \o ListValues(list, i + 1)

ValuesOf(fv) ==
    IF Len(fv.list) > 0 THEN ListValues(fv.list, 1)
    ELSE IF fv.simple.kind # "none" /\ extractValueString(fv.simple) # ""
    THEN <<extractValueString(fv.simple)>>
    ELSE <<>>

extractFilterValues(fv) ==
    IF ~fv.present THEN [values |-> <<>>, err |-> "filter value is nil"]
    ELSE IF Len(ValuesOf(fv)) = 0 THEN [values |-> <<>>, err |-> "no values found in filter"]
    ELSE [values |-> ValuesOf(fv), err |-> ""]

(***************************************************************************)
(* parser.go: the conversion of a Param.  A conversion returns the heap    *)
(* with the objects it allocated, the pointer to the expression (nil when  *)
(* the Param yields none) and the error chain.                             *)
(***************************************************************************)
Converted(h, ptr) == [h |-> h, ptr |-> ptr, err |-> NoErr]
ConvertFailed(h, err) == [h |-> h, ptr |-> Nil, err |-> err]
Allocated(h, obj) == Converted(Append(h, obj), Len(h) + 1)

ListFilter(h, key, op, vs) ==
    IF vs.err # "" THEN ConvertFailed(h, <<vs.err>>)
    ELSE Allocated(h, FilterSetOp(NewFilterBuilder(key), op, vs.values))

ValueFilter(h, sf, value) ==
    CASE sf.FilterSeparator = "Colon" ->
           IF sf.Negative
           THEN Allocated(h, FilterSetOp(NewFilterBuilder(sf.FilterKey), "NotEqual", <<value>>))
           ELSE Allocated(h, FilterSetOp(NewFilterBuilder(sf.FilterKey), "Equal", <<value>>))
      [] sf.FilterSeparator = "Regex" ->
           Allocated(h, FilterSetOp(NewFilterBuilder(sf.FilterKey), "Regex", <<value>>))
      [] sf.FilterSeparator = "In" ->
           ListFilter(h, sf.FilterKey, "In", extractFilterValues(sf.FilterValue))
      [] sf.FilterSeparator = "NotIn" ->
           ListFilter(h, sf.FilterKey, "NotIn", extractFilterValues(sf.FilterValue))
      [] OTHER ->
           IF sf.Negative
           THEN Allocated(h, FilterSetOp(NewFilterBuilder(sf.FilterKey), "NotEqual", <<value>>))
           ELSE Allocated(h, FilterSetOp(NewFilterBuilder(sf.FilterKey), "Equal", <<value>>))

WithValue(h, sf, v) ==
    IF v.err # "" THEN ConvertFailed(h, <<"failed to extract filter value", v.err>>)
    ELSE ValueFilter(h, sf, v.value)

\* a slip in the conversion: the key is not checked
convertSimpleFilter_anyKey(h, sf) ==
    IF sf.FilterSeparator = "nil" THEN ConvertFailed(h, <<"filter separator is missing">>)
    ELSE WithValue(h, sf, extractFilterValue(sf.FilterValue))

convertSimpleFilter(h, sf) ==
    IF sf.FilterKey = "" THEN ConvertFailed(h, <<"filter key is empty">>)
    ELSE IF sf.FilterSeparator = "nil" THEN ConvertFailed(h, <<"filter separator is missing">>)
    ELSE WithValue(h, sf, extractFilterValue(sf.FilterValue))

RECURSIVE convertParam(_, _), convertGroupedLoop(_, _, _, _, _)
\* the operator a separator inside a grouped filter selects
NextOperator(sep, currentOperator) ==
    IF sep \in {"And", "Comma"} THEN "AND"
    ELSE IF sep = "Or" THEN "OR"
    ELSE currentOperator

AddWith(h, g, expr, operator) == IF operator = "AND" THEN And(h, g, expr) ELSE Or(h, g, expr)

GroupedLoopAdd(g, params, i, currentOperator, c) ==
    IF c.err # NoErr THEN c
    ELSE IF c.ptr = Nil THEN convertGroupedLoop(c.h, g, params, i + 1, currentOperator)
    ELSE convertGroupedLoop(AddWith(c.h, g, c.ptr, currentOperator), g, params, i + 1,
                            currentOperator)

convertGroupedLoop(h, g, params, i, currentOperator) ==
    IF i > Len(params) THEN Converted(h, g)
    ELSE IF params[i].kind = "separator"
    THEN convertGroupedLoop(h, g, params, i + 1, NextOperator(params[i].sep, currentOperator))
    ELSE GroupedLoopAdd(g, params, i, currentOperator, convertParam(h, params[i]))

\* a group that received no expression is dropped: nil is returned
GroupOrNil(h, c) ==
    IF c.err # NoErr THEN ConvertFailed(h, c.err)
    ELSE IF Len(c.h[c.ptr].expressions) = 0 THEN Converted(h, Nil)
    ELSE c

convertGroupedFilter(h, gf) ==
    GroupOrNil(h, convertGroupedLoop(Append(h, NewFilterGroupBuilder), Len(h) + 1, gf, 1, "AND"))

convertParam(h, param) ==
    CASE param.kind = "asterisk" -> Converted(h, Nil)
      [] param.kind = "simple" -> convertSimpleFilter(h, param.sf)
      [] param.kind = "grouped" -> convertGroupedFilter(h, param.gf)
      [] OTHER -> Converted(h, Nil)

(***************************************************************************)
(* parser.go: convertFilters, one loop iteration at a time.  cv holds its  *)
(* locals: i is the index of the Param processed last (0 is mf.Left), expr *)
(* the expression that Param was converted to.                             *)
(***************************************************************************)
Stepped(h, c) == [h |-> h, cv |-> c, err |-> NoErr]
StepFailed(h, c, err) == [h |-> h, cv |-> [c EXCEPT !.pc = "failed"], err |-> err]

Last(seq) == seq[Len(seq)]
Front(seq) == SubSeq(seq, 1, Len(seq) - 1)

LeftStep(c, conv) ==
    IF conv.err # NoErr THEN StepFailed(conv.h, c, conv.err)
    ELSE IF conv.ptr = Nil THEN Stepped(conv.h, [c EXCEPT !.pc = "loop", !.expr = Nil])
    ELSE Stepped(conv.h, [c EXCEPT !.pc = "loop", !.expr = conv.ptr,
                                   !.expressions = Append(@, conv.ptr)])

\* a slip in the separator branch: the new group does not receive the
\* expression that is taken off the list
StartedGroup_empty(c, operator) == [NewFilterGroupBuilder EXCEPT !.operator = operator]

\* the group literal of a group-forming separator, holding the expression
\* emitted last when there is one
StartedGroup(c, operator) ==
    [NewFilterGroupBuilder EXCEPT
        !.operator = operator,
        !.expressions = IF Len(c.expressions) > 0 THEN <<Last(c.expressions)>> ELSE <<>>]

\* a slip in the separator branch: the operator of an open group is kept
GroupSeparator_firstWins(h, c, operator) ==
    IF c.currentGroup = Nil
    THEN Stepped(Append(h, StartedGroup(c, operator)),
                 [c EXCEPT !.currentGroup = Len(h) + 1,
                           !.groupOperator = operator,
                           !.expressions = IF Len(@) > 0 THEN Front(@) ELSE @])
    ELSE Stepped(h, [c EXCEPT !.groupOperator = operator])

GroupSeparator(h, c, operator) ==
    IF c.currentGroup = Nil
    THEN Stepped(Append(h, StartedGroup(c, operator)),
                 [c EXCEPT !.currentGroup = Len(h) + 1,
                           !.groupOperator = operator,
                           !.expressions = IF Len(@) > 0 THEN Front(@) ELSE @])
    ELSE Stepped([h EXCEPT ![c.currentGroup].operator = operator],
                 [c EXCEPT !.groupOperator = operator])

SeparatorStep(h, c, sep) ==
    IF sep = "And" THEN GroupSeparator(h, c, "AND")
    ELSE IF sep = "Or" THEN GroupSeparator(h, c, "OR")
    ELSE Stepped(h, c)

ExpressionStep(c, conv) ==
    IF conv.err # NoErr THEN StepFailed(conv.h, c, conv.err)
    ELSE IF conv.ptr = Nil THEN Stepped(conv.h, [c EXCEPT !.expr = Nil])
    ELSE IF c.currentGroup # Nil
    THEN Stepped(AddWith(conv.h, c.currentGroup, conv.ptr, c.groupOperator),
                 [c EXCEPT !.expr = conv.ptr])
    ELSE Stepped(conv.h, [c EXCEPT !.expr = conv.ptr, !.expressions = Append(@, conv.ptr)])

CloseStep(c) ==
    [c EXCEPT !.pc = "finish",
              !.expressions = IF c.currentGroup # Nil THEN Append(@, c.currentGroup) ELSE @]

(***************************************************************************)
(* The query text a parse was read from, in the syntax ddqp accepts.       *)
(***************************************************************************)
FilterSeparatorText(sep) ==
    CASE sep = "Colon" -> ":"
      [] sep = "Regex" -> ":~"
      [] sep = "In" -> " IN "
      [] sep = "NotIn" -> " NOT IN "
      [] OTHER -> ""

FilterValueText(fv) ==
    IF Len(fv.list) > 0
    THEN <<"(">> \o [i \in 1..Len(fv.list) |-> fv.list[i].text] \o <<")">>
    ELSE <<fv.simple.text>>

SimpleFilterText(sf) ==
    (IF sf.Negative THEN <<"!">> ELSE <<>>)
        \o <<sf.FilterKey, FilterSeparatorText(sf.FilterSeparator)>>
        \o FilterValueText(sf.FilterValue)

SeparatorText(sep) ==
    CASE sep = "Comma" -> ","
      [] sep = "And" -> " AND "
      [] sep = "Or" -> " OR "
      [] sep = "AndNot" -> " AND NOT "
      [] sep = "OrNot" -> " OR NOT "
      [] OTHER -> "NOT "

RECURSIVE ParamText(_), ParamsText(_, _)
ParamText(param) ==
    CASE param.kind = "asterisk" -> <<"*">>
      [] param.kind = "simple" -> SimpleFilterText(param.sf)
      [] param.kind = "grouped" -> <<"(">> \o ParamsText(param.gf, 1) \o <<")">>
      [] OTHER -> <<SeparatorText(param.sep)>>

ParamsText(params, i) ==
    IF i > Len(params) THEN <<>> ELSE ParamText(params[i]) \o ParamsText(params, i + 1)

RECURSIVE FunctionsText(_, _)
FunctionsText(fns, i) ==
    IF i > Len(fns) THEN <<>>
    ELSE <<".", fns[i].Name, "(">>
           \o Join([k \in 1..Len(fns[i].Args) |-> <<fns[i].Args[k].text>>], <<",">>)
           \o <<")">> \o FunctionsText(fns, i + 1)

MetricQueryText(q) ==
    (IF q.Aggregator = "" THEN <<>>
     ELSE IF q.window = "" THEN <<q.Aggregator, ":">>
     ELSE <<q.Aggregator, "(", q.window, ")", ":">>)
    \o <<q.MetricName>>
    \o (IF q.hasFilters THEN <<"{">> \o ParamText(q.Left) \o ParamsText(q.Parameters, 1) \o <<"}">>
        ELSE <<>>)
    \o (IF Len(q.Grouping) > 0
        THEN <<" by ", "{">> \o Join([k \in 1..Len(q.Grouping) |-> <<q.Grouping[k]>>], <<",">>) \o <<"}">>
        ELSE <<>>)
    \o FunctionsText(q.Function, 1)

\* the metric queries embedded in the expression, left to right: one inside
\* a function call, two around an arithmetic operator (the time window is
\* written before the first only)
MetricQueriesOf(q) ==
    IF q.shape = "arithmetic" THEN <<q, [q EXCEPT !.window = ""]>> ELSE <<q>>

TextsOf(qs) == [i \in 1..Len(qs) |-> MetricQueryText(qs[i])]

\* String() of the expression around the texts of its metric queries
ExpressionText(shape, texts) ==
    CASE shape = "wrapped" ->
           <<"moving_rollup", "(">> \o texts[1] \o <<", ", "60", ")">>
      [] shape = "expression" ->
           <<"top", "(">> \o texts[1] \o <<", ", "1", ", ", "'max'", ", ", "'desc'", ")">>
      [] shape = "arithmetic" -> texts[1] \o <<" / ">> \o texts[2]
      [] shape = "invalid" -> texts[1] \o <<"{">>
      [] OTHER -> texts[1]

QueryText(q) == ExpressionText(q.shape, TextsOf(MetricQueriesOf(q)))

(***************************************************************************)
(* parser.go: ParseQuery.                                                  *)
(***************************************************************************)
\* [0-9]+[smhd] | last_[0-9]+[smhd], on the window lexemes of the model
IsTimeWindow(tok) == tok \in {"5m", "last_5m", "1h"}

\* [a-zA-Z_][a-zA-Z0-9_]*, on the aggregator lexemes of the model
IsAggregatorName(tok) == tok \in {"avg", "sum"}

extractAndRemoveTimeWindow(queryString) ==
    IF /\ Len(queryString) >= 5
       /\ IsAggregatorName(queryString[1])
       /\ queryString[2] = "("
       /\ IsTimeWindow(queryString[3])
       /\ queryString[4] = ")"
       /\ queryString[5] = ":"
    THEN [timeWindow |-> queryString[3],
          cleanedQuery |-> <<queryString[1], ":">> \o SubSeq(queryString, 6, Len(queryString))]
    ELSE [timeWindow |-> "", cleanedQuery |-> queryString]

NoBuilder == [kind |-> "nil"]

newExpressionPassthroughBuilder(original) ==
    [NewMetricQueryBuilder EXCEPT !.kind = "expression", !.original = original]

\* the builder after the aggregator, time window and metric name are set
StructuredBuilder(q, timeWindow) ==
    [NewMetricQueryBuilder EXCEPT
        !.aggregator = q.Aggregator,
        !.timeWindow = IF q.Aggregator # "" /\ timeWindow # "" THEN timeWindow ELSE @,
        !.metric = q.MetricName]

\* the shapes the parser reads as a MetricExpression or a wrapped MetricQuery
Passthrough == {"wrapped", "expression", "arithmetic"}

\* a slip in ParseQuery: the passthrough keeps the query without its time window
ParseOutcome_cleaned(q, extracted) ==
    CASE q.shape = "invalid" ->
           [builder |-> NoBuilder, pc |-> "failed",
            result |-> Wrap("failed to parse query", Fail("ddqp: unexpected token"))]
      [] q.shape \in Passthrough ->
           [builder |-> newExpressionPassthroughBuilder(extracted.cleanedQuery), pc |-> "idle",
            result |-> NoResult]
      [] q.shape = "noquery" ->
           [builder |-> NoBuilder, pc |-> "failed",
            result |-> Fail("query is missing required Query component")]
      [] OTHER ->
           [builder |-> StructuredBuilder(q, extracted.timeWindow),
            pc |-> IF q.hasFilters THEN "left" ELSE "finish",
            result |-> NoResult]

\* where ParseQuery goes after the parse: the builder, the next step, the error
ParseOutcome(q, extracted) ==
    CASE q.shape = "invalid" ->
           [builder |-> NoBuilder, pc |-> "failed",
            result |-> Wrap("failed to parse query", Fail("ddqp: unexpected token"))]
      [] q.shape \in Passthrough ->
           [builder |-> newExpressionPassthroughBuilder(QueryText(q)), pc |-> "idle",
            result |-> NoResult]
      [] q.shape = "noquery" ->
           [builder |-> NoBuilder, pc |-> "failed",
            result |-> Fail("query is missing required Query component")]
      [] OTHER ->
           [builder |-> StructuredBuilder(q, extracted.timeWindow),
            pc |-> IF q.hasFilters THEN "left" ELSE "finish",
            result |-> NoResult]

RECURSIVE WithArgStrings(_, _, _)
WithArgStrings(fn, args, i) ==
    IF i > Len(args) THEN fn ELSE WithArgStrings(WithArg(fn, args[i].text), args, i + 1)

\* the builder ParseQuery returns: filters, grouping and functions added
ParsedBuilder(b, filters, q) ==
    [b EXCEPT !.filters = @ \o filters,
              !.groupBy = @ \o q.Grouping,
              !.functions = @ \o [k \in 1..Len(q.Function) |->
                                    WithArgStrings(NewFunctionBuilder(q.Function[k].Name),
                                                   q.Function[k].Args, 1)]]

(***************************************************************************)
(* part_006: expressionQueryBuilder, the passthrough builder.              *)
(***************************************************************************)
expressionQueryBuilder_FindGroup(b, p) == Nil

\* a slip in the passthrough: AddToGroup behaves as Filter does
expressionQueryBuilder_AddToGroup_added(b, group, filter) ==
    [b EXCEPT !.addedFilters = Append(@, filter)]

expressionQueryBuilder_AddToGroup(b, group, filter) == b

\* Metric, Aggregator, GroupBy, ApplyFunction, TimeWindow: { return b }
expressionQueryBuilder_Set(b, setter) == b

\* Build while no filter has been added: the original string
expressionQueryBuilder_Filter(b, filter) == [b EXCEPT !.addedFilters = Append(@, filter)]

\* a Param, or an error, or a panic (e.values[0] of a filter that has no
\* value, or a recursion through a group that contains itself)
ParamOk(p) == [p |-> p, err |-> NoErr, panic |-> FALSE]
ParamFail(msg) == [p |-> AsteriskParam, err |-> <<msg>>, panic |-> FALSE]
ParamPanic == [p |-> AsteriskParam, err |-> <<"panic">>, panic |-> TRUE]

\* Identifier values with a comma Value between them
RECURSIVE IdentifierList(_, _)
IdentifierList(values, i) ==
    IF i > Len(values) THEN <<>>
    ELSE <<Value("Identifier", values[i])>>
         \o (IF i < Len(values) THEN <<CommaValue>> ELSE <<>>)
         \o IdentifierList(values, i + 1)

\* toDDQPParam, case *filterBuilder
FilterToParam(e) ==
    IF e.key = "" THEN ParamFail("filter key is required")
    ELSE IF e.operation \in {"Equal", "NotEqual", "Regex"}
    THEN IF Len(e.values) = 0 THEN ParamPanic
         ELSE ParamOk(SimpleParam(SimpleFilter(e.key, e.operation = "NotEqual",
                                               IF e.operation = "Regex" THEN "Regex" ELSE "Colon",
                                               SimpleValue(Value("Identifier", e.values[1])))))
    ELSE IF e.operation \in {"In", "NotIn"}
    THEN ParamOk(SimpleParam(SimpleFilter(e.key, FALSE, e.operation,
                                          ListValue(IdentifierList(e.values, 1)))))
    ELSE ParamFail("unknown filter operation")

RECURSIVE toDDQPParam(_, _, _), GroupParams(_, _, _, _)
PrependParam(ps, rest) ==
    IF rest.err # NoErr THEN rest ELSE [rest EXCEPT !.p = GroupedParam(ps \o @.gf)]

GroupParamsStep(h, g, idx, fuel, r) ==
    IF r.err # NoErr THEN r
    ELSE PrependParam((IF idx > 1
                       THEN <<SeparatorParam(IF h[g].operator = "AND" THEN "And" ELSE "Or")>>
                       ELSE <<>>) \o <<r.p>>,
                      GroupParams(h, g, idx + 1, fuel))

\* toDDQPParam, case *filterGroupBuilder: the GroupedFilter from child idx on
GroupParams(h, g, idx, fuel) ==
    IF idx > Len(h[g].expressions) THEN ParamOk(GroupedParam(<<>>))
    ELSE GroupParamsStep(h, g, idx, fuel, toDDQPParam(h, h[g].expressions[idx], fuel))

toDDQPParam(h, e, fuel) ==
    IF fuel = 0 THEN ParamPanic
    ELSE IF h[e].kind = "filter" THEN FilterToParam(h[e])
    ELSE GroupParams(h, e, 1, fuel - 1)

RECURSIVE buildParamsForFilters(_, _, _)
AppendParams(ps, rest) ==
    IF rest.err # NoErr THEN rest ELSE [rest EXCEPT !.ps = ps \o @]

BuildParamsStep(h, filters, i, r) ==
    IF r.err # NoErr THEN [ps |-> <<>>, err |-> r.err, panic |-> r.panic]
    ELSE AppendParams(<<SeparatorParam("Comma")>>
                      \o (IF h[filters[i]].kind = "group" /\ h[filters[i]].negated
                          THEN <<SeparatorParam("Not")>> ELSE <<>>)
                      \o <<r.p>>,
                      buildParamsForFilters(h, filters, i + 1))

buildParamsForFilters(h, filters, i) ==
    IF i > Len(filters) THEN [ps |-> <<>>, err |-> NoErr, panic |-> FALSE]
    ELSE BuildParamsStep(h, filters, i, toDDQPParam(h, filters[i], Fuel(h)))

\* scanParam: the separators of a parameter list, those inside groups included
RECURSIVE SeparatorKinds(_)
SeparatorKinds(params) ==
    IF params = <<>> THEN {}
    ELSE (CASE params[1].kind = "separator" -> {params[1].sep}
            [] params[1].kind = "grouped" -> SeparatorKinds(params[1].gf)
            [] OTHER -> {})
         \cup SeparatorKinds(Tail(params))

ExplicitKinds == {"And", "Or", "AndNot", "OrNot", "Not"}

BothIn(kinds) == "Comma" \in kinds /\ kinds \cap ExplicitKinds # {}

\* a slip in the scan: grouped filters are not entered
hasExplicitOpsAndComma_topOnly(mf) ==
    BothIn({mf.Parameters[i].sep : i \in {j \in 1..Len(mf.Parameters) : mf.Parameters[j].kind = "separator"}})

hasExplicitOpsAndComma(mf) == BothIn(SeparatorKinds(<<mf.Left>> \o mf.Parameters))

RECURSIVE normalizeParam(_), NormalizeRest(_)
\* a negated simple filter becomes NOT and the filter; a group is normalized
WithNot(p) ==
    IF p.kind = "simple" /\ p.sf.Negative
    THEN <<SeparatorParam("Not"), SimpleParam([p.sf EXCEPT !.Negative = FALSE])>>
    ELSE <<normalizeParam(p)>>

\* the elements after the first: a comma becomes AND
NormalizeRest(params) ==
    IF params = <<>> THEN <<>>
    ELSE (IF params[1].kind = "separator" /\ params[1].sep = "Comma"
          THEN <<SeparatorParam("And")>>
          ELSE WithNot(params[1]))
         \o NormalizeRest(Tail(params))

normalizeGroupedFilter(params) ==
    IF params = <<>> THEN <<>> ELSE WithNot(params[1]) \o NormalizeRest(Tail(params))

normalizeParam(p) ==
    IF p.kind = "grouped" THEN GroupedParam(normalizeGroupedFilter(p.gf)) ELSE p

normalizeMetricFilterToExplicit(mf) ==
    [Left |-> GroupedParam(WithNot(mf.Left) \o NormalizeRest(mf.Parameters)),
     Parameters |-> <<>>]

Normalized(mf) == IF hasExplicitOpsAndComma(mf) THEN normalizeMetricFilterToExplicit(mf) ELSE mf

WithFilters(q, mf) ==
    [q EXCEPT !.hasFilters = TRUE, !.Left = mf.Left, !.Parameters = mf.Parameters]

\* a query without a filter block gets {*} first
applyFiltersToMetricQuery(q, params) ==
    WithFilters(q, Normalized([Left |-> IF q.hasFilters THEN q.Left ELSE AsteriskParam,
                               Parameters |-> (IF q.hasFilters THEN q.Parameters ELSE <<>>)
                                              \o params]))

\* gp.Parse(text), q being the query the text was written from: the parser
\* does not read an aggregator with a time window
GenericParser_Parse(text, q) ==
    IF extractAndRemoveTimeWindow(text).timeWindow # ""
    THEN [q |-> q, err |-> <<"ddqp: unexpected token">>]
    ELSE [q |-> q, err |-> NoErr]

\* a slip in the walk: the terms to the right of the operator are skipped
applyFiltersToGroupedExpression_leftOnly(qs, params) ==
    [i \in 1..Len(qs) |-> IF i = 1 THEN applyFiltersToMetricQuery(qs[i], params) ELSE qs[i]]

\* the walk over the expression: every metric query it holds, on either side
\* of an operator or in the body of a function, receives the parameters
applyFiltersToGroupedExpression(qs, params) ==
    [i \in 1..Len(qs) |-> applyFiltersToMetricQuery(qs[i], params)]

Rewritten(parsed, params) ==
    IF parsed.err # NoErr
    THEN Wrap("failed to parse expression for editing", [str |-> <<>>, err |-> parsed.err, overflow |-> FALSE])
    ELSE IF params.panic THEN Overflow
    ELSE IF params.err # NoErr THEN [str |-> <<>>, err |-> params.err, overflow |-> FALSE]
    ELSE Ok(ExpressionText(parsed.q.shape,
                           TextsOf(applyFiltersToGroupedExpression(MetricQueriesOf(parsed.q), params.ps))))

\* every metric query of the expression receives the parameters; String()
\* writes the expression back
expressionQueryBuilder_Build(h, b, q) ==
    IF Len(b.addedFilters) = 0 THEN Ok(b.original)
    ELSE Rewritten(GenericParser_Parse(b.original, q), buildParamsForFilters(h, b.addedFilters, 1))

(***************************************************************************)
(* The parsed queries the ingestion specifications start from.             *)
(***************************************************************************)
Identifier(text) == SimpleValue(Value("Identifier", text))

HostWeb1 == SimpleParam(SimpleFilter("host", FALSE, "Colon", Identifier("web-1")))
HostWeb2 == SimpleParam(SimpleFilter("host", FALSE, "Colon", Identifier("web-2")))
NotEnvProd == SimpleParam(SimpleFilter("env", TRUE, "Colon", Identifier("prod")))
HostRegex == SimpleParam(SimpleFilter("host", FALSE, "Regex", Identifier("web-.*")))
PortNumber == SimpleParam(SimpleFilter("port", FALSE, "Colon", SimpleValue(Value("Number", "8080"))))
HostIn ==
    SimpleParam(SimpleFilter("host", FALSE, "In",
        ListValue(<<Value("Identifier", "web-1"), CommaValue, Value("Identifier", "web-2"),
                    CommaValue, Value("Identifier", "web-3")>>)))
HostNotIn ==
    SimpleParam(SimpleFilter("host", FALSE, "NotIn",
        ListValue(<<Value("Identifier", "db-1"), CommaValue, Value("Identifier", "db-2")>>)))
NoKey == SimpleParam(SimpleFilter("", FALSE, "Colon", Identifier("web-1")))
NoSeparator == SimpleParam(SimpleFilter("host", FALSE, "nil", Identifier("web-1")))
\* a FilterSeparator that is present with none of Colon, Regex, In, NotIn set
BareSeparator == SimpleParam(SimpleFilter("host", FALSE, "Bare", Identifier("web-1")))
\* an IN list that holds separators only
EmptyIn == SimpleParam(SimpleFilter("host", FALSE, "In", ListValue(<<CommaValue>>)))

OrGroup == GroupedParam(<<HostWeb1, SeparatorParam("Or"), HostWeb2>>)
AndGroup == GroupedParam(<<HostWeb1, SeparatorParam("And"), NotEnvProd>>)
MixedGroup ==
    GroupedParam(<<HostWeb1, SeparatorParam("Or"), HostWeb2, SeparatorParam("And"), NotEnvProd>>)
NestedGroup == GroupedParam(<<NotEnvProd, SeparatorParam("And"), OrGroup>>)
StarGroup == GroupedParam(<<AsteriskParam>>)
NoKeyGroup == GroupedParam(<<HostWeb1, SeparatorParam("And"), NoKey>>)

Operands ==
    {AsteriskParam, HostWeb1, HostWeb2, NotEnvProd, HostRegex, PortNumber, HostIn, HostNotIn,
     NoKey, NoSeparator, BareSeparator, EmptyIn, OrGroup, AndGroup, MixedGroup, NestedGroup,
     StarGroup, NoKeyGroup}
PairOperands == {AsteriskParam, HostWeb1, NotEnvProd, HostIn, OrGroup}
TripleOperands == {HostWeb1, NotEnvProd, OrGroup}
Separators == {"Comma", "And", "Or", "AndNot"}

FilterLists ==
    {<<x>> : x \in Operands}
    \cup {<<x, SeparatorParam(s), y>> : x \in PairOperands, s \in Separators, y \in PairOperands}
    \cup {<<x, SeparatorParam(s), y, SeparatorParam(t), z>> :
            x \in TripleOperands, s \in Separators, y \in TripleOperands,
            t \in Separators, z \in TripleOperands}

Plain == [Aggregator |-> "", window |-> "", Grouping |-> <<>>, Function |-> <<>>]
Aggregated == [Aggregator |-> "avg", window |-> "", Grouping |-> <<>>, Function |-> <<>>]
Complex ==
    [Aggregator |-> "avg", window |-> "5m", Grouping |-> <<"host">>,
     Function |-> << [Name |-> "fill", Args |-> <<Value("Number", "0")>>],
                     [Name |-> "rollup", Args |-> <<Value("Number", "60"), Value("Identifier", "avg")>>] >>]

Query(shape, header, list) ==
    [shape |-> shape, Aggregator |-> header.Aggregator, window |-> header.window,
     MetricName |-> "system.cpu.idle", hasFilters |-> Len(list) > 0,
     Left |-> IF Len(list) > 0 THEN list[1] ELSE AsteriskParam,
     Parameters |-> IF Len(list) > 0 THEN Tail(list) ELSE <<>>,
     Grouping |-> header.Grouping, Function |-> header.Function,
     source |-> <<>>]

IngestInputs == {Query("query", Plain, list) : list \in FilterLists}

ParseLists ==
    { <<>>, <<AsteriskParam>>, <<HostWeb1>>,
      <<HostWeb1, SeparatorParam("Comma"), NotEnvProd>>,
      <<HostIn>>, <<HostRegex, SeparatorParam("Comma"), HostNotIn>>,
      <<HostWeb1, SeparatorParam("Or"), HostWeb2>>, <<OrGroup>>, <<NoKey>> }

ParseInputs ==
    {Query("query", header, list) : header \in {Plain, Aggregated, Complex}, list \in ParseLists}
    \cup {Query(shape, header, list) :
            shape \in {"wrapped", "expression"}, header \in {Plain, Aggregated},
            list \in {<<AsteriskParam>>, <<HostWeb1>>}}
    \cup {Query("arithmetic", header, <<HostWeb1>>) : header \in {Aggregated, Complex}}
    \cup {Query(shape, Plain, <<AsteriskParam>>) : shape \in {"invalid", "noquery", "new"}}

StartCv(q) ==
    [pc |-> IF q.shape = "new" THEN "idle" ELSE "start", i |-> 0, expressions |-> <<>>,
     currentGroup |-> Nil, groupOperator |-> "AND", expr |-> Nil, timeWindow |-> ""]

InitWith(inputs) ==
    /\ input \in inputs
    /\ heap = CallerFilters
    /\ builder = IF input.shape = "new" THEN NewMetricQueryBuilder ELSE NoBuilder
    /\ found = Nil
    /\ result = NoResult
    /\ last = Call(IF input.shape = "new" THEN "NewMetricQueryBuilder" ELSE "", Nil, Nil, "")
    /\ status = "running"
    /\ cv = StartCv(input)
    /\ calls = MaxCalls - MaxEdits

InitIngest == InitWith(IngestInputs)

InitParse == InitWith(ParseInputs)

ParseQueryStart ==
    /\ status = "running"
    /\ cv.pc = "start"
    /\ builder' = ParseOutcome(input, extractAndRemoveTimeWindow(QueryText(input))).builder
    /\ result' = ParseOutcome(input, extractAndRemoveTimeWindow(QueryText(input))).result
    /\ cv' = [cv EXCEPT
                !.pc = ParseOutcome(input, extractAndRemoveTimeWindow(QueryText(input))).pc,
                !.timeWindow = extractAndRemoveTimeWindow(QueryText(input)).timeWindow]
    /\ last' = Call("ParseQuery", Nil, Nil, "")
    /\ UNCHANGED <<heap, found, status, input, calls>>

\* a loop iteration's outcome; an error ends ParseQuery with no builder
Iterate(step) ==
    /\ heap' = step.h
    /\ cv' = step.cv
    /\ builder' = IF step.err # NoErr THEN NoBuilder ELSE builder
    /\ result' = IF step.err # NoErr
                 THEN Wrap("failed to convert filters",
                           [str |-> <<>>, err |-> step.err, overflow |-> FALSE])
                 ELSE result
    /\ UNCHANGED <<found, last, status, input, calls>>

ConvertLeft ==
    /\ status = "running"
    /\ cv.pc = "left"
    /\ Iterate(LeftStep(cv, convertParam(heap, input.Left)))

ConvertSeparator ==
    /\ status = "running"
    /\ cv.pc = "loop"
    /\ cv.i < Len(input.Parameters)
    /\ input.Parameters[cv.i + 1].kind = "separator"
    /\ Iterate(SeparatorStep(heap, [cv EXCEPT !.i = @ + 1, !.expr = Nil],
                             input.Parameters[cv.i + 1].sep))

ConvertExpression ==
    /\ status = "running"
    /\ cv.pc = "loop"
    /\ cv.i < Len(input.Parameters)
    /\ input.Parameters[cv.i + 1].kind # "separator"
    /\ Iterate(ExpressionStep([cv EXCEPT !.i = @ + 1],
                              convertParam(heap, input.Parameters[cv.i + 1])))

ConvertClose ==
    /\ status = "running"
    /\ cv.pc = "loop"
    /\ cv.i = Len(input.Parameters)
    /\ cv' = CloseStep(cv)
    /\ UNCHANGED <<heap, builder, found, result, last, status, input, calls>>

ParseQueryFinish ==
    /\ status = "running"
    /\ cv.pc = "finish"
    /\ builder' = ParsedBuilder(builder, cv.expressions, input)
    /\ cv' = [cv EXCEPT !.pc = "idle"]
    /\ UNCHANGED <<heap, found, result, last, status, input, calls>>

DoExprFindGroup ==
    /\ status = "running"
    /\ cv.pc = "idle"
    /\ calls < MaxCalls
    /\ calls' = calls + 1
    /\ builder.kind = "expression"
    /\ \E p \in PredNames :
          /\ found' = expressionQueryBuilder_FindGroup(builder, p)
          /\ last' = Call("FindGroup", Nil, Nil, p)
    /\ result' = NoResult
    /\ UNCHANGED <<heap, builder, status, input, cv>>

DoExprAddToGroup ==
    /\ status = "running"
    /\ cv.pc = "idle"
    /\ calls < MaxCalls
    /\ calls' = calls + 1
    /\ builder.kind = "expression"
    /\ \E g \in Groups(heap) \cup {Nil}, e \in 1..Len(heap) :
          /\ builder' = expressionQueryBuilder_AddToGroup(builder, g, e)
          /\ last' = Call("AddToGroup", g, e, "")
    /\ found' = Nil /\ result' = NoResult
    /\ UNCHANGED <<heap, status, input, cv>>

ExprSetters == {"Metric", "Aggregator", "GroupBy", "ApplyFunction", "TimeWindow"}

DoExprSet ==
    /\ status = "running"
    /\ cv.pc = "idle"
    /\ calls < MaxCalls
    /\ calls' = calls + 1
    /\ builder.kind = "expression"
    /\ \E setter \in ExprSetters :
          /\ builder' = expressionQueryBuilder_Set(builder, setter)
          /\ last' = Call(setter, Nil, Nil, "")
    /\ found' = Nil /\ result' = NoResult
    /\ UNCHANGED <<heap, status, input, cv>>

DoExprFilter ==
    /\ status = "running"
    /\ cv.pc = "idle"
    /\ calls < MaxCalls
    /\ calls' = calls + 1
    /\ builder.kind = "expression"
    /\ Len(builder.addedFilters) < MaxFilters
    /\ \E e \in 1..Len(heap) :
          /\ builder' = expressionQueryBuilder_Filter(builder, e)
          /\ last' = Call("Filter", Nil, e, "")
    /\ found' = Nil /\ result' = NoResult
    /\ UNCHANGED <<heap, status, input, cv>>

DoExprBuild ==
    /\ status = "running"
    /\ cv.pc = "idle"
    /\ calls < MaxCalls
    /\ calls' = calls + 1
    /\ builder.kind = "expression"
    /\ result' = expressionQueryBuilder_Build(heap, builder, input)
    /\ status' = IF result'.overflow THEN "crashed" ELSE "running"
    /\ last' = Call("Build", Nil, Nil, IF last.op = "Build" THEN "again" ELSE "")
    /\ found' = Nil
    /\ UNCHANGED <<heap, builder, input, cv>>

NextIngest ==
    \/ ParseQueryStart
    \/ ConvertLeft
    \/ ConvertSeparator
    \/ ConvertExpression
    \/ ConvertClose
    \/ ParseQueryFinish
    \/ DoBuild

\* convertFilters over the filter lists, then Build on what ParseQuery returned
SpecIngest == InitIngest /\ [][NextIngest]_vars

NextParse ==
    \/ ParseQueryStart
    \/ ConvertLeft
    \/ ConvertSeparator
    \/ ConvertExpression
    \/ ConvertClose
    \/ ParseQueryFinish
    \/ DoNewGroup
    \/ DoMetric
    \/ DoFindGroup
    \/ DoAddToGroup
    \/ DoBuild
    \/ DoExprFindGroup
    \/ DoExprAddToGroup
    \/ DoExprSet
    \/ DoExprFilter
    \/ DoExprBuild

\* ParseQuery (or NewMetricQueryBuilder), then an editing session on the builder
SpecParse == InitParse /\ [][NextParse]_vars

(***************************************************************************)
(* Reference notions of the ingestion properties.                          *)
(***************************************************************************)
\* canonical spacing: the blank after a comma does not count
Canon(tok) == IF tok = ", " THEN "," ELSE tok

RECURSIVE Flatten(_)
Flatten(toks) == IF toks = <<>> THEN "" ELSE Canon(toks[1]) \o Flatten(Tail(toks))

IsComma(p) == p.kind = "separator" /\ p.sep = "Comma"
IsGroupForming(p) == p.kind = "separator" /\ p.sep \in {"And", "Or"}
IsExpression(p) == p.kind \in {"simple", "grouped"}

CommaSeparatedSimple(q) ==
    /\ q.hasFilters
    /\ q.Left.kind = "simple"
    /\ \A i \in 1..Len(q.Parameters) : q.Parameters[i].kind = "simple" \/ IsComma(q.Parameters[i])

\* Build is the first call made on the builder ParseQuery returned
BuiltUnmodified == last.op = "Build" /\ calls = MaxCalls - MaxEdits + 1

ParamAt(k) == IF k = 0 THEN input.Left ELSE input.Parameters[k]

SeparatorsOf(params) == {params[i].sep : i \in {j \in 1..Len(params) : params[j].kind = "separator"}}

BesideComma(k) ==
    \/ k >= 2 /\ IsComma(ParamAt(k - 1))
    \/ k + 1 <= Len(input.Parameters) /\ IsComma(ParamAt(k + 1))

BesideGroupForming(k) ==
    \/ k >= 2 /\ IsGroupForming(ParamAt(k - 1))
    \/ k + 1 <= Len(input.Parameters) /\ IsGroupForming(ParamAt(k + 1))

TopLevel(ptr) == \E k \in 1..Len(cv.expressions) : cv.expressions[k] = ptr

InsideGroup(ptr) ==
    \E g \in Groups(heap) : \E k \in 1..Len(heap[g].expressions) : heap[g].expressions[k] = ptr

TokenOperator(sep) == IF sep = "And" THEN "AND" ELSE "OR"

GroupFormingTokens(params) == {i \in 1..Len(params) : IsGroupForming(params[i])}

LastGroupForming(params) ==
    params[CHOOSE i \in GroupFormingTokens(params) :
             \A j \in GroupFormingTokens(params) : j <= i].sep

Contains(s, sub) ==
    \E off \in 0..(Len(s) - Len(sub)) : SubSeq(s, off + 1, off + Len(sub)) = sub

TopLevelFilters(b) == IF b.kind = "metric" THEN b.filters ELSE b.addedFilters

(***************************************************************************)
(* C2: for a query whose filter block holds only comma-separated simple    *)
(* filters, Build on the unmodified builder that ParseQuery returned       *)
(* reproduces the query text up to canonical spacing.                      *)
(***************************************************************************)
C2_RoundTrip ==
    (BuiltUnmodified /\ input.shape = "query" /\ CommaSeparatedSimple(input)) =>
        /\ result.err = NoErr
        /\ Flatten(result.str) = Flatten(QueryText(input))

(***************************************************************************)
(* C3: a parenthesized grouped filter is converted to a group whose        *)
(* operator follows the separators inside the parentheses: all OR gives an *)
(* OR group (rendered with " OR "), all AND gives an AND group.            *)
(***************************************************************************)
C3_GroupedOperatorInferred ==
    (cv.pc \in {"loop", "finish"} /\ input.hasFilters
        /\ ParamAt(cv.i).kind = "grouped" /\ cv.expr # Nil) =>
        /\ SeparatorsOf(ParamAt(cv.i).gf) = {"Or"} =>
              /\ heap[cv.expr].operator = "OR"
              /\ Contains(BuildExpr(heap, cv.expr, Fuel(heap)).str, <<" OR ">>)
        /\ SeparatorsOf(ParamAt(cv.i).gf) = {"And"} =>
              /\ heap[cv.expr].operator = "AND"
              /\ Contains(BuildExpr(heap, cv.expr, Fuel(heap)).str, <<" AND ">>)

(***************************************************************************)
(* C4: a comma is never group-forming: an expression that stands beside a  *)
(* comma (and beside no AND / OR token) is emitted as a top-level entry of *)
(* the expression list and is a child of no group.                         *)
(***************************************************************************)
C4_CommaNeverGroups ==
    (cv.pc \in {"loop", "finish"} /\ input.hasFilters
        /\ IsExpression(ParamAt(cv.i)) /\ cv.expr # Nil
        /\ BesideComma(cv.i) /\ ~BesideGroupForming(cv.i)) =>
        /\ TopLevel(cv.expr)
        /\ ~InsideGroup(cv.expr)

(***************************************************************************)
(* C5: an AND / OR separator met while no group is open creates a group,   *)
(* takes the expression emitted last out of the list and makes it the      *)
(* group's first child; a later AND / OR token overwrites the open group's *)
(* operator; when convertFilters returns, the group is the last element of *)
(* the list and its operator is that of the last AND / OR token.           *)
(***************************************************************************)
C5_GroupFormingSeparator ==
    /\ [][ (cv.pc = "loop" /\ cv'.pc = "loop" /\ cv'.i = cv.i + 1
              /\ IsGroupForming(input.Parameters[cv'.i])) =>
             IF cv.currentGroup = Nil
             THEN /\ cv'.currentGroup = Len(heap) + 1
                  /\ heap' = Append(heap,
                        [NewFilterGroupBuilder EXCEPT
                           !.operator = TokenOperator(input.Parameters[cv'.i].sep),
                           !.expressions = IF cv.expressions = <<>> THEN <<>>
                                           ELSE <<Last(cv.expressions)>>])
                  /\ cv'.expressions = IF cv.expressions = <<>> THEN <<>>
                                       ELSE Front(cv.expressions)
             ELSE /\ cv'.currentGroup = cv.currentGroup
                  /\ heap' = [heap EXCEPT ![cv.currentGroup].operator =
                                             TokenOperator(input.Parameters[cv'.i].sep)]
                  /\ cv'.expressions = cv.expressions ]_vars
    /\ []( (cv.pc = "finish" /\ cv.currentGroup # Nil) =>
             /\ Last(cv.expressions) = cv.currentGroup
             /\ heap[cv.currentGroup].operator =
                  TokenOperator(LastGroupForming(input.Parameters)) )

\* "a AND b OR c": the group holds a, b and c and ends as an OR group
C5_Witness ==
    /\ cv.pc = "finish" /\ cv.currentGroup # Nil
    /\ SeparatorsOf(input.Parameters) = {"And", "Or"}
    /\ LastGroupForming(input.Parameters) = "Or"
    /\ heap[cv.currentGroup].operator = "OR"
    /\ Len(heap[cv.currentGroup].expressions) = 3
    /\ cv.expressions = <<cv.currentGroup>>

(***************************************************************************)
(* C9 as stated: on every builder, the passthrough included,               *)
(* AddToGroup(nil, e) never fails and adds e as the last top-level filter. *)
(***************************************************************************)
C9_NilGroupAddsFilter ==
    [][ (last'.op = "AddToGroup" /\ last'.g = Nil /\ calls' = calls + 1) =>
          /\ status' = "running"
          /\ TopLevelFilters(builder') = Append(TopLevelFilters(builder), last'.e) ]_vars

(***************************************************************************)
(* C9 amended: AddToGroup(nil, e) never fails on any builder; on a metric  *)
(* query builder (from NewMetricQueryBuilder or from ParseQuery) it        *)
(* appends e as the last top-level filter and a successful Build contains  *)
(* the rendering of every top-level filter; on the expression passthrough  *)
(* builder it leaves the builder as it was: e is not added.                *)
(***************************************************************************)
C9_NilGroupOnMetricBuilderOnly ==
    /\ [][ (last'.op = "AddToGroup" /\ last'.g = Nil /\ calls' = calls + 1) =>
             /\ status' = "running"
             /\ heap' = heap
             /\ IF builder.kind = "metric"
                THEN builder' = [builder EXCEPT !.filters = Append(@, last'.e)]
                ELSE builder' = builder ]_vars
    /\ []( (last.op = "Build" /\ builder.kind = "metric" /\ result.err = NoErr) =>
             \A k \in 1..Len(builder.filters) :
                Contains(result.str, BuildExpr(heap, builder.filters[k], Fuel(heap)).str) )

\* a parsed query received e through AddToGroup(nil, e), after its own filter
C9_Witness ==
    /\ last.op = "AddToGroup" /\ last.g = Nil
    /\ input.shape = "query" /\ builder.kind = "metric"
    /\ Len(builder.filters) >= 2
    /\ Last(builder.filters) = last.e

(***************************************************************************)
(* C11: Not() sets the negation flag and never toggles it: a Not() call,   *)
(* the first or a repeated one, leaves the group negated and changes       *)
(* neither its children nor its operator nor any other object; a negated   *)
(* group renders as "NOT " followed by what it renders without the flag    *)
(* (the parenthesized join for several children, the child for one).       *)
(***************************************************************************)
C11_NotIdempotent ==
    /\ [][ (last'.op = "Not" /\ calls' = calls + 1) =>
             heap' = [heap EXCEPT ![last'.g].negated = TRUE] ]_vars
    /\ []( (last.op = "GroupBuild" /\ result.err = NoErr /\ heap[last.g].negated) =>
             result.str = <<"NOT ">> \o Block(Rendered(heap, heap[last.g].expressions),
                                              OpStr(heap[last.g])) )

\* Not() on a group that was negated already and has two children
C11_Witness ==
    /\ last.op = "Not" /\ last.s = "again"
    /\ heap[last.g].negated
    /\ Len(heap[last.g].expressions) = 2

(***************************************************************************)
(* The validation specification: the caller holds one filter in any state  *)
(* the FilterBuilder methods can leave it in, alone or inside groups, and  *)
(* a metric query builder; it calls the operation methods, And, Metric,    *)
(* Filter, ApplyFunction, FindGroup and the three Build methods.           *)
(***************************************************************************)
MaxSteps == 3

FilterKeys == {"", "host"}

\* the operation methods with their arguments: Equal(value) ... NotIn(values...)
FilterCalls ==
    {[op |-> o, values |-> <<"web-1">>] :
        o \in {"Equal", "NotEqual", "GreaterThan", "LessThan", "Regex"}}
    \cup {[op |-> o, values |-> v] :
        o \in {"In", "NotIn"}, v \in {<<>>, <<"web-1", "web-2">>}}

FilterStates ==
    {NewFilterBuilder(k) : k \in FilterKeys}
    \cup {FilterSetOp(NewFilterBuilder(k), c.op, c.values) : k \in FilterKeys, c \in FilterCalls}

\* fill(0) and a function built without a name
CallerFunctions == {WithArg(NewFunctionBuilder("fill"), "0"), NewFunctionBuilder("")}

\* the object graphs: f alone, f beside a good filter, f in a group, an
\* empty group, f two groups deep, an empty group inside a group
ValidationHeaps ==
    UNION {{ <<f>>,
             <<CallerFilters[1], f>>,
             And(<<f, NewFilterGroupBuilder>>, 2, 1),
             <<f, NewFilterGroupBuilder>>,
             And(And(<<f, NewFilterGroupBuilder, NewFilterGroupBuilder>>, 2, 1), 3, 2),
             And(<<f, NewFilterGroupBuilder, NewFilterGroupBuilder>>, 3, 2) } : f \in FilterStates}

InitValidate ==
    /\ heap \in ValidationHeaps
    /\ \E name \in MetricNames \cup {""}, fs \in {<<>>, <<Len(heap)>>} :
          builder = [NewMetricQueryBuilder EXCEPT !.metric = name, !.filters = fs]
    /\ found = Nil
    /\ result = NoResult
    /\ last = Call("NewMetricQueryBuilder", Nil, Nil, "")
    /\ status = "running"
    /\ input = NoInput
    /\ cv = NoCv
    /\ calls = MaxCalls - MaxSteps

\* f.Equal(v), f.In(vs...), ...
DoFilterOp ==
    /\ status = "running"
    /\ cv.pc = "idle"
    /\ calls < MaxCalls
    /\ calls' = calls + 1
    /\ \E f \in 1..Len(heap), c \in FilterCalls :
          /\ heap[f].kind = "filter"
          /\ heap' = [heap EXCEPT ![f] = FilterSetOp(@, c.op, c.values)]
          /\ last' = Call(c.op, Nil, f, "")
    /\ found' = Nil /\ result' = NoResult
    /\ UNCHANGED <<builder, status, input, cv>>

\* f.Build()
DoFilterBuild ==
    /\ status = "running"
    /\ cv.pc = "idle"
    /\ calls < MaxCalls
    /\ calls' = calls + 1
    /\ \E f \in 1..Len(heap) :
          /\ heap[f].kind = "filter"
          /\ result' = filterBuilder_Build(heap[f])
          /\ last' = Call("FilterBuild", Nil, f, "")
    /\ found' = Nil
    /\ UNCHANGED <<heap, builder, status, input, cv>>

DoApplyFunction ==
    /\ status = "running"
    /\ cv.pc = "idle"
    /\ calls < MaxCalls
    /\ calls' = calls + 1
    /\ builder.kind = "metric"
    /\ Len(builder.functions) < MaxFilters
    /\ \E fn \in CallerFunctions :
          /\ builder' = ApplyFunction(builder, fn)
          /\ last' = Call("ApplyFunction", Nil, Nil, fn.name)
    /\ found' = Nil /\ result' = NoResult
    /\ UNCHANGED <<heap, status, input, cv>>

NextValidate ==
    \/ DoFilterOp
    \/ DoFilterBuild
    \/ DoAnd
    \/ DoMetric
    \/ DoFilter
    \/ DoApplyFunction
    \/ DoFindGroup
    \/ DoGroupBuild
    \/ DoBuild

SpecValidate == InitValidate /\ [][NextValidate]_vars

\* what the operation methods and the checks of filterBuilder.Build say of a filter
OneValued == {"Equal", "NotEqual", "GreaterThan", "LessThan", "Regex"}
NeverSet(f) == f = NewFilterBuilder(f.key)

(***************************************************************************)
(* C13: a FilterBuilder.Build that succeeds renders key:value (Equal),     *)
(* key!:value (NotEqual), key:~pattern (Regex), key IN (v1,v2,...) (In)    *)
(* and key NOT IN (v1,v2,...) (NotIn), spacing aside.                      *)
(***************************************************************************)
CanonicalForm(f) ==
    CASE f.operation = "Equal" -> <<f.key, ":", f.values[1]>>
      [] f.operation = "NotEqual" -> <<f.key, "!:", f.values[1]>>
      [] f.operation = "Regex" -> <<f.key, ":~", f.values[1]>>
      [] f.operation = "In" ->
           <<f.key, " IN ", "(">> \o Join([i \in 1..Len(f.values) |-> <<f.values[i]>>], <<",">>) \o <<")">>
      [] f.operation = "NotIn" ->
           <<f.key, " NOT IN ", "(">> \o Join([i \in 1..Len(f.values) |-> <<f.values[i]>>], <<",">>) \o <<")">>
      [] OTHER -> <<>>

C13_CanonicalFilterForm ==
    (last.op = "FilterBuild" /\ result.err = NoErr
        /\ heap[last.e].operation \in {"Equal", "NotEqual", "Regex", "In", "NotIn"}) =>
       Flatten(result.str) = Flatten(CanonicalForm(heap[last.e]))

(***************************************************************************)
(* C14: FilterBuilder.Build returns an error whenever the key is empty,    *)
(* the operation is In or NotIn with no values, or no operation method was *)
(* ever called; in every other case it succeeds.                           *)
(***************************************************************************)
C14_FilterBuildErrors ==
    last.op = "FilterBuild" =>
       ( (result.err # NoErr /\ result.str = <<>>) <=>
            \/ heap[last.e].key = ""
            \/ heap[last.e].operation \in {"In", "NotIn"} /\ Len(heap[last.e].values) = 0
            \/ NeverSet(heap[last.e]) )

\* Build on a filter with a key that no operation method was called on
C14_Witness ==
    /\ last.op = "FilterBuild"
    /\ heap[last.e].key # "" /\ NeverSet(heap[last.e])
    /\ result.err = <<"equal filter requires exactly one value">>

\* the checks of filterBuilder.Build, as a condition on the filter
FilterFails(f) ==
    \/ f.key = ""
    \/ f.operation \in OneValued /\ Len(f.values) # 1
    \/ f.operation \in {"In", "NotIn"} /\ Len(f.values) = 0

(***************************************************************************)
(* C15: a MetricQueryBuilder.Build that returns, returns an error and the  *)
(* empty string exactly when the metric name is empty, or a filter         *)
(* reachable from the filter list fails its own Build, or a reachable      *)
(* group has no children, or an applied function has an empty name.        *)
(***************************************************************************)
C15_BuildErrorsExactly ==
    (last.op = "Build" /\ builder.kind = "metric" /\ status = "running") =>
       /\ (result.err # NoErr) <=>
             \/ builder.metric = ""
             \/ \E n \in ReachableNodes :
                   \/ heap[n].kind = "filter" /\ FilterFails(heap[n])
                   \/ heap[n].kind = "group" /\ heap[n].expressions = <<>>
             \/ \E i \in 1..Len(builder.functions) : builder.functions[i].name = ""
       /\ (result.err # NoErr) <=> (result.str = <<>>)

\* a filter two groups deep fails and the query's Build reports it
C15_Witness ==
    /\ last.op = "Build" /\ builder.metric # ""
    /\ Len(builder.filters) = 1 /\ IsGroup(heap, builder.filters[1])
    /\ \E g \in Groups(heap) :
          /\ heap[builder.filters[1]].expressions = <<g>>
          /\ Len(heap[g].expressions) = 1
          /\ heap[heap[g].expressions[1]].kind = "filter"
          /\ FilterFails(heap[heap[g].expressions[1]])
    /\ result.err # NoErr /\ result.str = <<>>

(***************************************************************************)
(* C16: Build on a metric query builder, a group or a filter, and a        *)
(* FindGroup whose predicate calls Build, change no builder state, whether *)
(* they succeed or fail; a second Build right after a Build returns the    *)
(* same result; after a failed Build a setter call changes what it sets    *)
(* and nothing that was added before.                                      *)
(***************************************************************************)
C16_BuildFrame ==
    /\ [][ (calls' = calls + 1 /\ last'.op \in {"Build", "GroupBuild", "FilterBuild", "FindGroup"}) =>
             (heap' = heap /\ builder' = builder) ]_vars
    /\ [][ (calls' = calls + 1 /\ last'.op \in {"Build", "GroupBuild", "FilterBuild"} /\ last' = [last EXCEPT !.s = last'.s]) =>
             result' = result ]_vars
    /\ [][ (calls' = calls + 1 /\ last.op = "Build" /\ result.err # NoErr /\ last'.op = "Metric") =>
             (heap' = heap /\ builder' = [builder EXCEPT !.metric = last'.s]) ]_vars

\* a second Build in a row fails as the first did, on a list with a group
C16_Witness ==
    /\ last.op = "Build" /\ last.s = "again"
    /\ builder.metric # "" /\ Len(builder.filters) > 0 /\ hasExplicitOperators(heap, builder)
    /\ result.err # NoErr

\* the simple filters of a parameter list, at any depth
RECURSIVE SimpleFiltersIn(_)
SimpleFiltersIn(params) ==
    IF params = <<>> THEN {}
    ELSE (CASE params[1].kind = "simple" -> {params[1].sf}
            [] params[1].kind = "grouped" -> SimpleFiltersIn(params[1].gf)
            [] OTHER -> {})
         \cup SimpleFiltersIn(Tail(params))

SimpleFiltersOf(q) == SimpleFiltersIn(<<q.Left>> \o q.Parameters)

Ingested == input.shape = "query" /\ cv.pc \in {"idle", "failed"}
Rejected == cv.pc = "failed" /\ builder = NoBuilder /\ result.err # NoErr

NoExtractedValues(sf) == sf.FilterSeparator \in {"In", "NotIn"} /\ ValuesOf(sf.FilterValue) = <<>>

(***************************************************************************)
(* C17 as stated: ingestion returns an error and no builder whenever a     *)
(* simple filter has an empty key, a separator that is none of the         *)
(* recognized kinds, or is In/NotIn with zero extracted values.            *)
(***************************************************************************)
C17_MalformedRejected ==
    (Ingested /\ \E sf \in SimpleFiltersOf(input) :
                    \/ sf.FilterKey = ""
                    \/ sf.FilterSeparator \notin {"Colon", "Regex", "In", "NotIn"}
                    \/ NoExtractedValues(sf)) =>
       Rejected

(***************************************************************************)
(* C17, amended: ingestion returns an error and no builder whenever a      *)
(* simple filter, at any depth, has an empty key, no separator at all, or  *)
(* is In/NotIn with zero extracted values; a separator that is present but *)
(* of no recognized kind is read as a colon: the filter becomes Equal.     *)
(***************************************************************************)
C17_MissingRejectedBareIsEqual ==
    /\ (Ingested /\ \E sf \in SimpleFiltersOf(input) :
                       \/ sf.FilterKey = ""
                       \/ sf.FilterSeparator = "nil"
                       \/ NoExtractedValues(sf)) =>
          Rejected
    /\ (Ingested /\ input.Left = BareSeparator /\ input.Parameters = <<>>) =>
          /\ builder.kind = "metric" /\ Len(builder.filters) = 1
          /\ heap[builder.filters[1]] =
                FilterSetOp(NewFilterBuilder("host"), "Equal", <<"web-1">>)

\* a filter without a key, inside a parenthesized group, fails the ingestion
C17_Witness ==
    /\ Ingested /\ input.Left = NoKeyGroup
    /\ Rejected

\* the NOT, AND NOT and OR NOT tokens of the top-level list that stand before an operand
NegatingTokens(q) ==
    {i \in 1..(Len(q.Parameters) - 1) :
        /\ q.Parameters[i].kind = "separator"
        /\ q.Parameters[i].sep \in {"Not", "AndNot", "OrNot"}
        /\ IsExpression(q.Parameters[i + 1])}

(***************************************************************************)
(* C18: ingestion preserves negation: for every NOT, AND NOT or OR NOT     *)
(* token before an operand, Build on the unmodified parsed builder renders *)
(* that operand under a "NOT " prefix; no negation is dropped.             *)
(***************************************************************************)
C18_NegationPreserved ==
    (input.shape = "query" /\ BuiltUnmodified /\ result.err = NoErr) =>
       Count("NOT ", result.str) >= Cardinality(NegatingTokens(input))

RewriteHeap ==
    Not(And(And(Or(Or(CallerFilters
                      \o << FilterSetOp(NewFilterBuilder("host"), "In", <<"web-1", "web-2">>),
                            NewFilterBuilder("host"),
                            NewFilterGroupBuilder, NewFilterGroupBuilder, NewFilterGroupBuilder >>,
                      5, 1), 5, 2), 6, 1), 6, 5), 6)

CommaGroup == GroupedParam(<<HostWeb1, SeparatorParam("Comma"), NotEnvProd>>)

RewriteLists ==
    { <<>>, <<AsteriskParam>>, <<HostWeb1>>,
      <<HostWeb1, SeparatorParam("Comma"), NotEnvProd>>,
      <<HostWeb1, SeparatorParam("And"), HostWeb2>>,
      <<OrGroup>>, <<CommaGroup>>,
      <<HostWeb1, SeparatorParam("Comma"), OrGroup>>,
      <<NotEnvProd, SeparatorParam("AndNot"), HostWeb1>> }

RewriteInputs ==
    {Query(shape, header, list) :
        shape \in Passthrough, header \in {Plain, Aggregated}, list \in RewriteLists}
    \cup {Query("arithmetic", Complex, <<HostWeb1>>)}

InitRewrite ==
    /\ input \in RewriteInputs
    /\ heap = RewriteHeap
    /\ builder = NoBuilder
    /\ found = Nil
    /\ result = NoResult
    /\ last = Call("", Nil, Nil, "")
    /\ status = "running"
    /\ cv = StartCv(input)
    /\ calls = MaxCalls - MaxEdits

NextRewrite ==
    \/ ParseQueryStart
    \/ DoExprSet
    \/ DoExprFilter
    \/ DoExprBuild

SpecRewrite == InitRewrite /\ [][NextRewrite]_vars

\* the filter parameters of the query before the rewrite, with those of the
\* added filters after them, and the filter parameters Build wrote
Appended ==
    <<IF input.hasFilters THEN input.Left ELSE AsteriskParam>>
    \o (IF input.hasFilters THEN input.Parameters ELSE <<>>)
    \o buildParamsForFilters(heap, builder.addedFilters, 1).ps

Written ==
    <<applyFiltersToMetricQuery(input, buildParamsForFilters(heap, builder.addedFilters, 1).ps).Left>>
    \o applyFiltersToMetricQuery(input, buildParamsForFilters(heap, builder.addedFilters, 1).ps).Parameters

RewroteQuery ==
    /\ builder.kind = "expression" /\ Len(builder.addedFilters) > 0
    /\ last.op = "Build" /\ result.err = NoErr

(***************************************************************************)
(* C20: after Filter calls on a passthrough builder, the filter parameters *)
(* of every metric query a successful Build wrote never hold both a comma  *)
(* separator and an explicit boolean separator, at any depth.  Where the   *)
(* appended parameters would mix the two, the block is one grouped filter  *)
(* in which every comma is an AND and no simple filter is negative (each   *)
(* negation is a NOT separator before the filter); where they hold no      *)
(* explicit operator, the block is the appended list: commas and no AND.   *)
(***************************************************************************)
C20_NoMixedSeparators ==
    RewroteQuery =>
       /\ result.str = QueryText([input EXCEPT !.hasFilters = TRUE, !.Left = Head(Written),
                                               !.Parameters = Tail(Written)])
       /\ ~("Comma" \in SeparatorKinds(Written) /\ SeparatorKinds(Written) \cap ExplicitKinds # {})
       /\ ("Comma" \in SeparatorKinds(Appended) /\ SeparatorKinds(Appended) \cap ExplicitKinds # {}) =>
             /\ Len(Written) = 1 /\ Written[1].kind = "grouped"
             /\ "Comma" \notin SeparatorKinds(Written)
             /\ \A sf \in SimpleFiltersIn(Written) : ~sf.Negative
             /\ Cardinality({sf \in SimpleFiltersIn(Appended) : sf.Negative}) <= Count("NOT ", result.str)
       /\ (SeparatorKinds(Appended) \cap ExplicitKinds = {}) =>
             /\ Written = Appended
             /\ "And" \notin SeparatorKinds(Written)

\* a comma list with a negative filter received an OR group: one grouped
\* filter with AND and NOT came out
C20_Witness ==
    /\ RewroteQuery
    /\ input.Parameters = <<SeparatorParam("Comma"), NotEnvProd>>
    /\ builder.addedFilters = <<5>>
    /\ SeparatorKinds(Written) = {"And", "Not", "Or"}

(***************************************************************************)
(* The re-parse specification: ParseQuery(s), Build gives r, ParseQuery(r),*)
(* Build.  The parse of r is written down for the renderings whose syntax  *)
(* the parser is known to read: key:value and key:~pattern atoms, commas,  *)
(* AND, OR and parentheses; Reparse is taken only when the text of that    *)
(* parse is r, spacing aside.                                              *)
(***************************************************************************)
NumberTexts == {"8080"}

AtomOf(f) ==
    SimpleParam(SimpleFilter(f.key, FALSE, IF f.operation = "Regex" THEN "Regex" ELSE "Colon",
                             SimpleValue(Value(IF f.values[1] \in NumberTexts THEN "Number"
                                               ELSE "Identifier", f.values[1]))))

\* what the parser reads from the rendering of an expression: a filter's
\* atom, a one-child group's child, a group's parenthesized list
RECURSIVE ParseOfExpr(_, _, _), ParseOfList(_, _, _, _, _)
ParseOfList(h, ids, i, sep, fuel) ==
    IF i > Len(ids) THEN <<>>
    ELSE (IF i > 1 THEN <<SeparatorParam(sep)>> ELSE <<>>)
         \o <<ParseOfExpr(h, ids[i], fuel)>>
         \o ParseOfList(h, ids, i + 1, sep, fuel)

ParseOfExpr(h, id, fuel) ==
    IF fuel = 0 THEN AsteriskParam
    ELSE IF h[id].kind = "filter" THEN AtomOf(h[id])
    ELSE IF Len(h[id].expressions) = 1 THEN ParseOfExpr(h, h[id].expressions[1], fuel - 1)
    ELSE GroupedParam(ParseOfList(h, h[id].expressions, 1,
                                  IF h[id].operator = "AND" THEN "And" ELSE "Or", fuel - 1))

\* the filter block: {*}, the comma list, or the wrapping AND group
ParseOfFilters(h, b) ==
    IF Len(b.filters) = 0 THEN <<AsteriskParam>>
    ELSE IF ~hasExplicitOperators(h, b) THEN ParseOfList(h, b.filters, 1, "Comma", Len(h))
    ELSE IF Len(b.filters) = 1 THEN <<ParseOfExpr(h, b.filters[1], Len(h))>>
    ELSE <<GroupedParam(ParseOfList(h, b.filters, 1, "And", Len(h)))>>

ParseOfRendering(q, list, r) ==
    [q EXCEPT !.hasFilters = TRUE, !.Left = list[1], !.Parameters = Tail(list), !.source = r]

\* every filter of the tree renders in the syntax the parser is known to read
KnownSyntax ==
    \A n \in ReachableNodes :
       /\ ~heap[n].negated
       /\ heap[n].kind = "filter" => heap[n].operation \in {"Equal", "Regex"}

\* the caller passes the rendering r to ParseQuery
Reparse ==
    /\ status = "running"
    /\ cv.pc = "idle"
    /\ builder.kind = "metric"
    /\ input.source = <<>>
    /\ last.op = "Build" /\ result.err = NoErr
    /\ KnownSyntax
    /\ Flatten(QueryText(ParseOfRendering(input, ParseOfFilters(heap, builder), result.str)))
          = Flatten(result.str)
    /\ input' = ParseOfRendering(input, ParseOfFilters(heap, builder), result.str)
    /\ cv' = StartCv(input')
    /\ heap' = CallerFilters
    /\ builder' = NoBuilder
    /\ result' = NoResult
    /\ last' = Call("", Nil, Nil, "")
    /\ found' = Nil
    /\ UNCHANGED <<status, calls>>

NextReparse ==
    \/ ParseQueryStart
    \/ ConvertLeft
    \/ ConvertSeparator
    \/ ConvertExpression
    \/ ConvertClose
    \/ ParseQueryFinish
    \/ DoBuild
    \/ Reparse

SpecReparse == InitIngest /\ [][NextReparse]_vars

(***************************************************************************)
(* C12: parse-then-render is stable: when the rendering r of a parsed      *)
(* query is parsed again, Build on that second builder returns r.          *)
(***************************************************************************)
C12_RenderingStable ==
    (input.source # <<>> /\ last.op = "Build") => result = Ok(input.source)

(***************************************************************************)
(* C21: every operation terminates: no sequence of the public operations   *)
(* makes a group reachable from itself through its children, and no Build  *)
(* or FindGroup recurses without bound.                                    *)
(***************************************************************************)
ChildrenOf(h, g) == {h[g].expressions[k] : k \in 1..Len(h[g].expressions)}

SelfReachable(h, g) == g \in ReachableFrom(h, ChildrenOf(h, g), Len(h))

C21_Terminates ==
    /\ \A g \in Groups(heap) : ~SelfReachable(heap, g)
    /\ status # "crashed"

(***************************************************************************)
(* Setter specification: the chained setters of metricQueryBuilder, called *)
(* in any order, and Build. The builder starts fresh or with a metric name *)
(* and an aggregator an earlier call has set.                              *)
(***************************************************************************)
MaxSetterCalls == 5

Aggregator(b, agg) == [b EXCEPT !.aggregator = agg]

TimeWindow(b, window) == [b EXCEPT !.timeWindow = window]

\* a slip in GroupBy: the arguments replace the list
GroupBy_replaces(b, groups) == [b EXCEPT !.groupBy = groups]

GroupBy(b, groups) == [b EXCEPT !.groupBy = @ \o groups]

AggregatorNames == {"avg", "sum"}
TimeWindows == {"5m", "10m"}
GroupNames == {"host", "env"}
GroupByArgs == {<<g>> : g \in GroupNames} \cup {<<g1, g2>> : g1, g2 \in GroupNames}

InitSetters ==
    /\ heap = CallerFilters
    /\ \E name \in {"", "system.mem.used"}, agg \in {"", "avg"} :
          builder = Aggregator([NewMetricQueryBuilder EXCEPT !.metric = name], agg)
    /\ found = Nil
    /\ result = NoResult
    /\ last = Call("NewMetricQueryBuilder", Nil, Nil, "")
    /\ status = "running"
    /\ input = NoInput
    /\ cv = NoCv
    /\ calls = MaxCalls - MaxSetterCalls

DoAggregator ==
    /\ status = "running"
    /\ cv.pc = "idle"
    /\ calls < MaxCalls
    /\ calls' = calls + 1
    /\ builder.kind = "metric"
    /\ \E agg \in AggregatorNames :
          /\ builder' = Aggregator(builder, agg)
          /\ last' = Call("Aggregator", Nil, Nil, agg)
    /\ found' = Nil /\ result' = NoResult
    /\ UNCHANGED <<heap, status, input, cv>>

DoTimeWindow ==
    /\ status = "running"
    /\ cv.pc = "idle"
    /\ calls < MaxCalls
    /\ calls' = calls + 1
    /\ builder.kind = "metric"
    /\ \E window \in TimeWindows :
          /\ builder' = TimeWindow(builder, window)
          /\ last' = Call("TimeWindow", Nil, Nil, window)
    /\ found' = Nil /\ result' = NoResult
    /\ UNCHANGED <<heap, status, input, cv>>

\* GroupBy(groups...): last.s holds the arguments
DoGroupBy ==
    /\ status = "running"
    /\ cv.pc = "idle"
    /\ calls < MaxCalls
    /\ calls' = calls + 1
    /\ builder.kind = "metric"
    /\ \E groups \in GroupByArgs :
          /\ Len(builder.groupBy) + Len(groups) <= MaxFilters + 1
          /\ builder' = GroupBy(builder, groups)
          /\ last' = Call("GroupBy", Nil, Nil, groups)
    /\ found' = Nil /\ result' = NoResult
    /\ UNCHANGED <<heap, status, input, cv>>

NextSetters ==
    \/ DoMetric
    \/ DoAggregator
    \/ DoTimeWindow
    \/ DoFilter
    \/ DoGroupBy
    \/ DoApplyFunction
    \/ DoBuild

SpecSetters == InitSetters /\ [][NextSetters]_vars

\* the positions where a filter block opens (the braces after " by " hold
\* group names), and where the block opened at k closes
BlockOpens(s) == {k \in 1..Len(s) : s[k] = "{" /\ (k = 1 \/ s[k - 1] # " by ")}

BlockClose(s, k) ==
    IF \E j \in k..Len(s) : s[j] = "}"
    THEN CHOOSE j \in k..Len(s) : s[j] = "}" /\ \A m \in k..(j - 1) : s[m] # "}"
    ELSE Len(s)

\* the n-th smallest element of a set of positions
Nth(S, n) == CHOOSE k \in S : Cardinality({j \in S : j < k}) = n - 1

\* the filter blocks of a query text, left to right, braces included
FilterBlocks(s) ==
    [n \in 1..Cardinality(BlockOpens(s)) |->
        SubSeq(s, Nth(BlockOpens(s), n), BlockClose(s, Nth(BlockOpens(s), n)))]

\* the first filter block of s
FilterBlockOf(s) == IF BlockOpens(s) = {} THEN <<>> ELSE FilterBlocks(s)[1]

CommaList(strs) ==
    IF Len(strs) = 0 THEN <<"*">> ELSE Interleave(strs, <<", ">>, Len(strs))

(***************************************************************************)
(* C22: when no top-level filter is a FilterGroup, a successful Build      *)
(* renders the filter block as the filters' renderings in insertion order  *)
(* joined by ", " inside braces, as {*} when the list is empty, and a      *)
(* builder with only a metric name renders exactly <metric>{*}.            *)
(***************************************************************************)
C22_CommaBlock ==
    (last.op = "Build" /\ result.err = NoErr /\ ~TopLevelHasGroup) =>
        /\ FilterBlockOf(result.str)
              = <<"{">> \o CommaList(Rendered(heap, builder.filters)) \o <<"}">>
        /\ (/\ builder.aggregator = "" /\ builder.timeWindow = ""
            /\ builder.filters = <<>> /\ builder.groupBy = <<>> /\ builder.functions = <<>>)
              => result.str = <<builder.metric, "{", "*", "}">>

C22_Witness ==
    /\ last.op = "Build" /\ result.err = NoErr
    /\ builder.filters = <<2, 1>>
    /\ builder.aggregator # "" /\ builder.groupBy # <<>>
    /\ FilterBlockOf(result.str) = <<"{", "env", "!:", "prod", ", ", "host", ":", "web-1", "}">>

\* one call of a setter, or of Build, as the caller sees it on the builder
SetterStep ==
    /\ last'.op = "Metric" => builder' = [builder EXCEPT !.metric = last'.s]
    /\ last'.op = "Aggregator" => builder' = [builder EXCEPT !.aggregator = last'.s]
    /\ last'.op = "TimeWindow" => builder' = [builder EXCEPT !.timeWindow = last'.s]
    /\ last'.op = "Filter" => builder' = [builder EXCEPT !.filters = Append(@, last'.e)]
    /\ last'.op = "GroupBy" => builder' = [builder EXCEPT !.groupBy = @ \o last'.s]
    /\ last'.op = "ApplyFunction" =>
          \E fn \in CallerFunctions :
             fn.name = last'.s /\ builder' = [builder EXCEPT !.functions = Append(@, fn)]
    /\ last'.op = "Build" => builder' = builder
    /\ status' = "running"

ExpectedPrefix(b) ==
    IF b.aggregator = "" THEN <<>>
    ELSE IF b.timeWindow = "" THEN <<b.aggregator, ":">>
    ELSE <<b.aggregator, "(", b.timeWindow, ")", ":">>

ExpectedBy(b) ==
    IF b.groupBy = <<>> THEN <<>>
    ELSE <<" by ", "{">> \o Interleave([i \in 1..Len(b.groupBy) |-> <<b.groupBy[i]>>], <<", ">>, Len(b.groupBy)) \o <<"}">>

ExpectedFunctions(b) ==
    Join([i \in 1..Len(b.functions) |-> functionBuilder_Build(b.functions[i]).str], <<>>)

\* the query of a builder whose filters are all plain
ExpectedQuery(h, b) ==
    ExpectedPrefix(b) \o <<b.metric>>
        \o <<"{">> \o CommaList(Rendered(h, b.filters)) \o <<"}">>
        \o ExpectedBy(b) \o ExpectedFunctions(b)

BuiltOk == last.op = "Build" /\ result.err = NoErr

(***************************************************************************)
(* C23 as stated: after any sequence of setter calls the next Build        *)
(* reflects the last Metric, Aggregator and TimeWindow and the             *)
(* concatenation in call order of the Filter, GroupBy and ApplyFunction    *)
(* arguments; no setter fails or undoes another. The time window shows in  *)
(* the rendering whenever one was set.                                     *)
(***************************************************************************)
C23_EverySetterReflected ==
    /\ [][SetterStep]_vars
    /\ [](BuiltOk => /\ result.str = ExpectedQuery(heap, builder)
                     /\ builder.timeWindow # "" =>
                           Contains(result.str, <<"(", builder.timeWindow, ")">>))

(***************************************************************************)
(* C23: each setter writes its own field only (Metric, Aggregator and      *)
(* TimeWindow overwrite; Filter, GroupBy and ApplyFunction append), no     *)
(* setter fails, and a successful Build renders the fields as they stand,  *)
(* lists in call order with duplicates kept; the time window is rendered   *)
(* only together with an aggregator.                                       *)
(***************************************************************************)
C23_SettersReflected ==
    /\ [][SetterStep]_vars
    /\ [](BuiltOk => result.str = ExpectedQuery(heap, builder))
    /\ []((BuiltOk /\ builder.aggregator = "") => result.str[1] = builder.metric)

C23_Witness ==
    /\ BuiltOk
    /\ builder.aggregator = "sum" /\ builder.timeWindow = "10m"
    /\ builder.groupBy = <<"host", "env", "host">>
    /\ result.str = <<"sum", "(", "10m", ")", ":", "system.mem.used", "{", "*", "}",
                      " by ", "{", "host", ", ", "env", ", ", "host", "}">>

(***************************************************************************)
(* Shared-node specification: the caller builds a tree, obtains a node     *)
(* from GetFilters or FindGroup, calls And / Or / Not on it and builds.    *)
(***************************************************************************)
\* a slip in GetFilters: the caller receives copies of the top-level nodes
GetFilters_copies(h, b) ==
    [heap |-> h \o [i \in 1..Len(b.filters) |-> h[b.filters[i]]],
     filters |-> [i \in 1..Len(b.filters) |-> Len(h) + i]]

\* b.GetFilters(): the slice of the builder, holding the builder's pointers
GetFilters(h, b) == [heap |-> h, filters |-> b.filters]

\* filters := b.GetFilters(); the caller takes filters[i], if there is one
DoGetFilters ==
    /\ status = "running"
    /\ cv.pc = "idle"
    /\ calls < MaxCalls
    /\ calls' = calls + 1
    /\ builder.kind = "metric"
    /\ heap' = GetFilters(heap, builder).heap
    /\ IF Len(builder.filters) = 0 THEN found' = Nil
       ELSE \E i \in 1..Len(builder.filters) : found' = GetFilters(heap, builder).filters[i]
    /\ last' = Call("GetFilters", Nil, Nil, "")
    /\ result' = NoResult
    /\ UNCHANGED <<builder, status, input, cv>>

NextShared ==
    \/ DoNewGroup
    \/ DoAnd
    \/ DoOr
    \/ DoNot
    \/ DoMetric
    \/ DoFilter
    \/ DoGetFilters
    \/ DoFindGroup
    \/ DoBuild

SpecShared == Init /\ [][NextShared]_vars

\* the number of places of the tree of b that hold the pointer g
Occurrences(h, b, g) ==
    Cardinality({i \in 1..Len(b.filters) : b.filters[i] = g})
      + Cardinality({nk \in ReachableNodes \X (1..MaxChildren + 1) :
                        nk[2] <= Len(h[nk[1]].expressions) /\ h[nk[1]].expressions[nk[2]] = g})

\* after is before with one occurrence of old replaced by new
ChangedAt(before, after, old, new) ==
    \E off \in 0..(Len(before) - Len(old)) :
       /\ SubSeq(before, off + 1, off + Len(old)) = old
       /\ after = SubSeq(before, 1, off) \o new \o SubSeq(before, off + Len(old) + 1, Len(before))

\* what a call on the obtained group does to the rendering of the query
SharedEffect(before, after, old, new, once) ==
    (~after.overflow /\ after.err = NoErr) =>
        /\ after # before
        /\ Contains(after.str, new.str)
        /\ (before.err = NoErr /\ once) => ChangedAt(before.str, after.str, old.str, new.str)

(***************************************************************************)
(* C24: GetFilters and FindGroup hand out the builder's own nodes, and a   *)
(* call of And, Or or Not (the first Not) on a group obtained from them    *)
(* changes the rendering of the query: the new rendering of the group      *)
(* stands where the old one stood.                                         *)
(***************************************************************************)
C24_GroupsShared ==
    /\ []((last.op \in {"GetFilters", "FindGroup"} /\ found # Nil /\ found # CrashPtr)
             => found \in ReachableNodes)
    /\ [][ (/\ last.op \in {"GetFilters", "FindGroup"}
            /\ last'.op \in {"And", "Or", "Not"} /\ last'.g = found
            /\ ~(last'.op = "Not" /\ last'.s = "again")
            /\ builder.metric # "")
           => SharedEffect(metricQueryBuilder_Build(heap, builder),
                           metricQueryBuilder_Build(heap', builder'),
                           BuildExpr(heap, found, Fuel(heap)),
                           BuildExpr(heap', found, Fuel(heap')),
                           Occurrences(heap, builder, found) = 1) ]_vars

C24_Witness ==
    /\ last.op = "And" /\ last.s = "found"
    /\ builder.filters = <<last.g>>
    /\ heap[last.g].expressions = <<1, 2>>
    /\ metricQueryBuilder_Build(heap, builder)
          = Ok(<<"system.cpu.idle", "{", "(", "host", ":", "web-1", " AND ",
                 "env", "!:", "prod", ")", "}">>)

\* the parentheses open after the first n lexemes of s
RECURSIVE Depth(_, _)
Depth(s, n) ==
    IF n = 0 THEN 0
    ELSE Depth(s, n - 1) + (IF s[n] = "(" THEN 1 ELSE IF s[n] = ")" THEN -1 ELSE 0)

\* s is one expression inside one outer pair of parentheses
Enclosed(s) ==
    /\ Len(s) >= 2
    /\ s[1] = "(" /\ s[Len(s)] = ")"
    /\ \A n \in 1..(Len(s) - 1) : Depth(s, n) >= 1

\* the filter block without its braces
Inner(s) == SubSeq(FilterBlockOf(s), 2, Len(FilterBlockOf(s)) - 1)

(***************************************************************************)
(* C25 as stated: whenever the top-level filter list holds a FilterGroup,  *)
(* the rendered filter block is one expression enclosed in one outer pair  *)
(* of parentheses, for every number of top-level filters, of children and  *)
(* every negation flag.                                                    *)
(***************************************************************************)
C25_AlwaysEnclosed ==
    (last.op = "Build" /\ result.err = NoErr /\ TopLevelHasGroup) =>
        Enclosed(Inner(result.str))

\* the block of a query whose only top-level filter is the group g
SingleGroupBlock(h, g, inner) ==
    /\ inner = BuildExpr(h, g, Fuel(h)).str
    /\ h[g].negated => inner[1] = "NOT "
    /\ (~h[g].negated /\ Len(h[g].expressions) >= 2) => Enclosed(inner)
    /\ (~h[g].negated /\ Len(h[g].expressions) = 1) =>
          inner = BuildExpr(h, h[g].expressions[1], Fuel(h)).str

(***************************************************************************)
(* C25: with a FilterGroup among two or more top-level filters the filter  *)
(* block is one expression enclosed in one outer pair of parentheses; when *)
(* the list is a single FilterGroup the block is that group's rendering:   *)
(* enclosed when it has two or more children and is not negated, its one   *)
(* child's rendering when it has one child, and prefixed by NOT, outside   *)
(* any parentheses, when it is negated.                                    *)
(***************************************************************************)
C25_EnclosedWhenSeveral ==
    (last.op = "Build" /\ result.err = NoErr /\ TopLevelHasGroup) =>
        IF Len(builder.filters) >= 2 THEN Enclosed(Inner(result.str))
        ELSE SingleGroupBlock(heap, builder.filters[1], Inner(result.str))

C25_Witness ==
    /\ last.op = "Build" /\ result.err = NoErr
    /\ Len(builder.filters) = 1
    /\ heap[builder.filters[1]].kind = "group" /\ heap[builder.filters[1]].negated
    /\ Inner(result.str) = <<"NOT ", "host", ":", "web-1">>

\* the simple filters of a parameter list in source order, groups included
RECURSIVE SimpleFilterSeq(_)
SimpleFilterSeq(params) ==
    IF params = <<>> THEN <<>>
    ELSE (CASE params[1].kind = "simple" -> <<params[1].sf>>
            [] params[1].kind = "grouped" -> SimpleFilterSeq(params[1].gf)
            [] OTHER -> <<>>)
         \o SimpleFilterSeq(Tail(params))

\* the leaf filters below a list of expressions, left to right
RECURSIVE Leaves(_, _, _)
Leaves(h, ids, fuel) ==
    IF ids = <<>> \/ fuel = 0 THEN <<>>
    ELSE (IF h[Head(ids)].kind = "group" THEN Leaves(h, h[Head(ids)].expressions, fuel - 1)
          ELSE <<Head(ids)>>)
         \o Leaves(h, Tail(ids), fuel)

\* the filter object a simple filter is converted to
FilterOf(sf) == convertSimpleFilter(<<>>, sf).h[1]

SameFilters(h, leaves, sfs) ==
    /\ Len(leaves) = Len(sfs)
    /\ \A i \in 1..Len(sfs) : h[leaves[i]] = FilterOf(sfs[i])

(***************************************************************************)
(* C26: when convertFilters returns a list, the leaf filters of the list,  *)
(* left to right with groups flattened in child order, are the simple      *)
(* filters of the input in source order, those inside parenthesized groups *)
(* included: no filter is lost, duplicated or moved.                       *)
(***************************************************************************)
C26_LeavesInSourceOrder ==
    (input.shape = "query" /\ cv.pc = "finish") =>
        SameFilters(heap, Leaves(heap, cv.expressions, Fuel(heap)),
                    SimpleFilterSeq(<<input.Left>> \o input.Parameters))

\* "env!:prod AND (host:web-1 OR host:web-2) , host:web-1"
C26_Witness ==
    /\ input.shape = "query" /\ cv.pc = "finish"
    /\ input.Left = NotEnvProd
    /\ input.Parameters = <<SeparatorParam("And"), OrGroup, SeparatorParam("Comma"), HostWeb1>>
    /\ Len(Leaves(heap, cv.expressions, Fuel(heap))) = 4

(***************************************************************************)
(* C27: every FilterGroup of the list convertFilters returns has at least  *)
(* one child, and Build on the unmodified builder of a successful          *)
(* ParseQuery never fails with the empty-group error.                      *)
(***************************************************************************)
C27_NoEmptyGroup ==
    /\ (input.shape = "query" /\ cv.pc = "finish") =>
          \A g \in ReachableFrom(heap, {cv.expressions[i] : i \in 1..Len(cv.expressions)}, Len(heap)) :
             heap[g].kind = "group" => Len(heap[g].expressions) >= 1
    /\ (input.shape = "query" /\ BuiltUnmodified) =>
          \A k \in 1..Len(result.err) :
             result.err[k] # "filter group must contain at least one expression"

\* the text around the filter blocks
OutsideBlocks(s) ==
    {k \in 1..Len(s) : \A o \in BlockOpens(s) : k < o \/ k > BlockClose(s, o)}

WithoutBlocks(s) ==
    [n \in 1..Cardinality(OutsideBlocks(s)) |-> s[Nth(OutsideBlocks(s), n)]]

ExistingParams(q) ==
    IF q.hasFilters THEN <<q.Left>> \o q.Parameters ELSE <<AsteriskParam>>

Positive(sfs) == [i \in 1..Len(sfs) |-> [sfs[i] EXCEPT !.Negative = FALSE]]

MixesStyles(params) ==
    "Comma" \in SeparatorKinds(params) /\ SeparatorKinds(params) \cap ExplicitKinds # {}

\* the block written for the metric query q after the parameters ps were added
BlockHolds(block, q, ps, written) ==
    /\ block = <<"{">> \o ParamsText(written, 1) \o <<"}">>
    /\ Positive(SimpleFilterSeq(written))
          = Positive(SimpleFilterSeq(ExistingParams(q))) \o Positive(SimpleFilterSeq(ps))
    /\ ~MixesStyles(ExistingParams(q) \o ps) =>
          block = <<"{">> \o ParamsText(ExistingParams(q), 1) \o ParamsText(ps, 1) \o <<"}">>

EveryBlockHolds(text, qs, ps, original) ==
    /\ Len(FilterBlocks(text)) = Len(qs)
    /\ \A i \in 1..Len(qs) :
          BlockHolds(FilterBlocks(text)[i], qs[i], ps,
                     <<applyFiltersToMetricQuery(qs[i], ps).Left>>
                        \o applyFiltersToMetricQuery(qs[i], ps).Parameters)
    /\ WithoutBlocks(text) = WithoutBlocks(original)

(***************************************************************************)
(* C28: on a passthrough builder a successful Build after Filter calls     *)
(* writes the added filters into the filter block of every metric query of *)
(* the expression (both sides of an arithmetic operator, the body of a     *)
(* function), after the filters the query had and in call order, and the   *)
(* text around the filter blocks is that of the original expression.       *)
(***************************************************************************)
C28_FiltersInEveryQuery ==
    RewroteQuery =>
        EveryBlockHolds(result.str, MetricQueriesOf(input),
                        buildParamsForFilters(heap, builder.addedFilters, 1).ps,
                        builder.original)

\* "avg:system.cpu.idle{host:web-1,!env:prod} / avg:system.cpu.idle{host:web-1,!env:prod}"
\* received host IN (web-1, web-2)
C28_Witness ==
    /\ RewroteQuery
    /\ input.shape = "arithmetic" /\ input.Aggregator = "avg"
    /\ input.Parameters = <<SeparatorParam("Comma"), NotEnvProd>>
    /\ builder.addedFilters = <<3>>
    /\ Len(FilterBlocks(result.str)) = 2
    /\ FilterBlocks(result.str)[2]
          = <<"{", "host", ":", "web-1", ",", "!", "env", ":", "prod", ",",
              "host", " IN ", "(", "web-1", ",", "web-2", ")", "}">>

(***************************************************************************)
(* C29: Build on a passthrough builder with an added filter parses exactly *)
(* the text ParseQuery validated (the query without its time window), so   *)
(* for every string ParseQuery accepted, those that begin with agg(5m):    *)
(* included, Build after Filter does not fail with a parse error.          *)
(***************************************************************************)
C29_BuildParsesValidatedText ==
    /\ builder.kind = "expression" =>
          builder.original = extractAndRemoveTimeWindow(QueryText(input)).cleanedQuery
    /\ (builder.kind = "expression" /\ last.op = "Build" /\ Len(builder.addedFilters) > 0) =>
          \A k \in 1..Len(result.err) : result.err[k] # "failed to parse expression for editing"

HasWildcard(block) == \E k \in 1..Len(block) : block[k] = "*"

(***************************************************************************)
(* C30: a rendered filter block holds the wildcard * only when the query   *)
(* has no filters: ingestion drops wildcard parameters, and after a filter *)
(* was added to a query, whether on the structured or on the passthrough   *)
(* builder, the block holds the filter and no wildcard.                    *)
(***************************************************************************)
C30_WildcardOnlyWhenEmpty ==
    /\ (input.shape = "query" /\ cv.pc = "finish") =>
          Len(Leaves(heap, cv.expressions, Fuel(heap)))
             = Len(SimpleFilterSeq(<<input.Left>> \o input.Parameters))
    /\ (builder.kind = "metric" /\ last.op = "Build" /\ result.err = NoErr) =>
          (HasWildcard(FilterBlockOf(result.str)) <=> builder.filters = <<>>)
    /\ (builder.kind = "expression" /\ last.op = "Build" /\ result.err = NoErr
          /\ Len(builder.addedFilters) > 0) =>
          \A i \in 1..Len(FilterBlocks(result.str)) : ~HasWildcard(FilterBlocks(result.str)[i])

====
